---------------------------- MODULE Spec2Model ----------------------------
(***************************************************************************)
(* A model of the financial-rag document pipeline and retrieval engine:    *)
(* the two chunkers of RAGSystem, the streaming and the non-streaming      *)
(* query path with the evaluator and the feedback store, the embedding     *)
(* cache of EmbeddingsService, the ingestion path with the blob container  *)
(* and the vector store, and the delete and list requests on the stored    *)
(* documents.  Each component has its own specification over the shared    *)
(* variables; a component's actions leave the variables of the other       *)
(* components unchanged.                                                   *)
(***************************************************************************)
EXTENDS Integers, Sequences, FiniteSets, TLC

VARIABLES
    chunkText,   \* the text handed to RAGSystem._chunk_text
    chunkPc,     \* "input" before the call, "done" after it
    chunkOut,    \* the list of chunks _chunk_text returned
    transport,   \* which SSE generator of routes/query.py serves the stream
    spc,         \* position of process_query_stream (the producer)
    tpc,         \* position of the transport generator
    out,         \* the event the producer has yielded and the transport holds
    frames,      \* the frames delivered to the caller, in order
    relevantDocs,    \* relevant_docs: the similarity of each retrieved source
    retrieval,       \* "none", or what search_similar returned: "empty", "found"
    tokenCount,      \* token_count of process_query_stream
    completionCalls, \* calls made to the completion provider
    failedAt,        \* the step that raised, or "none"
    framesAtFailure, \* the frames delivered when that step raised
    cache,       \* the Redis store of EmbeddingsService: key -> entry
    now,         \* the clock, in days
    embedOp,     \* the generate_embeddings call in progress (between retries)
    lastEmbed,   \* what the last completed generate_embeddings call did
    lastStore,   \* per text, the day its embedding was last written to the cache
    ipc,         \* position of RAGSystem.ingest_document
    ingestDoc,   \* the document being ingested: its id and content
    ingestChunks,    \* chunks: what the chunking step produced
    chunkIdx,        \* the loop index i of the embedding loop
    chunkEmbeddings, \* chunk_embeddings
    embedLog,        \* each embedding attempt made: chunk index and outcome
    blobs,           \* the names of the blobs in the documents container
    blobOutcome,     \* "none", or how store_document ended: "ok", "failed"
    chunkOutcome,    \* "none", or how _chunk_text ended
    index,           \* the points of the vector collection
    uuidSeq,         \* how many base UUIDs store_embeddings has drawn
    storeArgs,       \* the chunk list the last store_embeddings call received
    vectorOutcome,   \* "none", or how store_embeddings ended: "ok", "failed"
    ingestResult,    \* what ingest_document returned or raised
    ingestCount,     \* ingestions started
    qMode,       \* the entry point invoked: "query", "evaluate", or "none"
    qpc,         \* position of RAGSystem.process_query
    qId,         \* query_id of the process_query invocation
    qDocs,       \* relevant_docs: the similarity of each retrieved source
    qResponse,   \* completion["text"]
    qCalls,      \* calls made to the completion provider
    qEval,       \* what evaluate_response returned
    qResult,     \* what process_query returned or raised
    clock,       \* the last reading of datetime.utcnow()
    queryIds,    \* the query_id assigned to each invocation, in start order
    evalLogs,    \* the blobs of the evaluation-logs container: name -> data
    lastDelete,  \* the last DELETE /documents/{id} request and its outcome
    deleteCount, \* delete requests made
    lastList,    \* the last list_documents call and its result
    lastFeedback, \* the last record_feedback call and its outcome
    genText,     \* the text handed to RAGSystem._chunk_generator
    genSize,     \* chunk_size of _chunk_generator
    genOverlap,  \* chunk_overlap of _chunk_generator
    genStart,    \* start of _chunk_generator
    genPc,       \* position of _chunk_generator: "loop" or "done"
    genLast      \* the chunk _chunk_generator yielded last, or <<>>

chunkVars == <<chunkText, chunkPc, chunkOut>>

streamVars ==
    <<transport, spc, tpc, out, frames, relevantDocs, retrieval, tokenCount,
      completionCalls, failedAt, framesAtFailure>>

embedVars == <<cache, now, embedOp, lastEmbed, lastStore>>

ingestVars ==
    <<ipc, ingestDoc, ingestChunks, chunkIdx, chunkEmbeddings, embedLog, blobs,
      blobOutcome, chunkOutcome, index, uuidSeq, storeArgs, vectorOutcome,
      ingestResult, ingestCount>>

queryVars ==
    <<qMode, qpc, qId, qDocs, qResponse, qCalls, qEval, qResult, clock,
      queryIds, evalLogs>>

requestVars == <<lastDelete, deleteCount, lastList, lastFeedback>>

genVars == <<genText, genSize, genOverlap, genStart, genPc, genLast>>

vars ==
    <<chunkVars, streamVars, embedVars, ingestVars, queryVars, requestVars,
      genVars>>

\* what the actions of one component leave unchanged
nonChunkVars ==
    <<streamVars, embedVars, ingestVars, queryVars, requestVars,
      genVars>>

nonStreamVars ==
    <<chunkVars, embedVars, ingestVars, queryVars, requestVars,
      genVars>>

nonEmbedVars ==
    <<chunkVars, streamVars, ingestVars, queryVars, requestVars,
      genVars>>

nonIngestVars ==
    <<chunkVars, streamVars, embedVars, queryVars, requestVars,
      genVars>>

nonQueryVars ==
    <<chunkVars, streamVars, embedVars, ingestVars, requestVars,
      genVars>>

\* what a request on the stored documents leaves unchanged
nonStoreVars == <<chunkVars, streamVars, embedVars, queryVars, genVars>>

nonGenVars ==
    <<chunkVars, streamVars, embedVars, ingestVars, queryVars, requestVars>>

(***************************************************************************)
(* Bounds.  A text is a sequence of one-character strings.  ChunkLimit     *)
(* stands for the literal 1000 of _chunk_text (rag.py:401, :413),          *)
(* ChunkOverlap for settings.CHUNK_OVERLAP (config.py:39): both are scaled *)
(* down so that texts on either side of the limit can be enumerated.       *)
(***************************************************************************)
MaxTextLen == 7

ChunkLimit == 5

ChunkOverlap == 2

Alphabet == {"a", "b", "\n"}

Whitespace == {" ", "\n", "\t"}

Texts == UNION {[1..n -> Alphabet] : n \in 0..MaxTextLen}

(***************************************************************************)
(* Python string primitives used by the chunker.                           *)
(***************************************************************************)
RECURSIVE LStrip(_)
LStrip(s) ==
    IF s # <<>> /\ Head(s) \in Whitespace THEN LStrip(Tail(s)) ELSE s

RECURSIVE RStrip(_)
RStrip(s) ==
    IF s # <<>> /\ s[Len(s)] \in Whitespace
    THEN RStrip(SubSeq(s, 1, Len(s) - 1))
    ELSE s

\* str.strip(): leading and trailing whitespace removed
Strip(s) == RStrip(LStrip(s))

\* the least index i with s[i] = s[i+1] = "\n", or 0: str.find("\n\n") + 1
FindSep(s) ==
    LET hits == {i \in 1..(Len(s) - 1) : s[i] = "\n" /\ s[i + 1] = "\n"}
    IN  IF hits = {} THEN 0 ELSE CHOOSE i \in hits : \A j \in hits : i <= j

\* str.split("\n\n"): non-overlapping separators, scanned left to right
RECURSIVE SplitParagraphs(_)
SplitParagraphs(s) ==
    LET i == FindSep(s)
    IN  IF i = 0
        THEN <<s>>
        ELSE <<SubSeq(s, 1, i - 1)>> \o SplitParagraphs(SubSeq(s, i + 2, Len(s)))

RECURSIVE StripNonEmpty(_)
\* [p.strip() for p in parts if p.strip()]
StripNonEmpty(parts) ==
    IF parts = <<>>
    THEN <<>>
    ELSE LET p == Strip(Head(parts))
         IN  (IF p = <<>> THEN <<>> ELSE <<p>>) \o StripNonEmpty(Tail(parts))

ParaSep == <<"\n", "\n">>

\* the packing condition of the paragraph loop
PackFits(current, para) == Len(current) + Len(para) < ChunkLimit

RECURSIVE PackParagraphs(_, _, _)
\* the loop of _chunk_text over the paragraphs, and the final flush
PackParagraphs(paras, current, acc) ==
    IF paras = <<>>
    THEN IF current # <<>> THEN Append(acc, Strip(current)) ELSE acc
    ELSE LET para == Head(paras)
         IN  IF PackFits(current, para)
             THEN PackParagraphs(Tail(paras), current \o para \o ParaSep, acc)
             ELSE PackParagraphs(
                      Tail(paras),
                      para \o ParaSep,
                      IF current # <<>> THEN Append(acc, Strip(current)) ELSE acc)

\* the small-document test of _chunk_text
IsSmall(text) == Len(text) < ChunkLimit

\* a variant of SingleChunk that forgets to trim
SingleChunkUntrimmed(text) == <<text>>

\* return [text.strip()]
SingleChunk(text) == <<Strip(text)>>

\* RAGSystem._chunk_text: the list of chunks of a text
ChunkTextOf(text) ==
    IF IsSmall(text)
    THEN SingleChunk(text)
    ELSE PackParagraphs(StripNonEmpty(SplitParagraphs(text)), <<>>, <<>>)

(***************************************************************************)
(* The chunker as a state machine: a text goes in, its chunks come out.    *)
(***************************************************************************)
ChunkIdle ==
    /\ chunkText = <<>>
    /\ chunkPc = "idle"
    /\ chunkOut = <<>>

StreamIdle ==
    /\ transport = "none"
    /\ spc = "idle"
    /\ tpc = "idle"
    /\ out = [type |-> "none"]
    /\ frames = <<>>
    /\ relevantDocs = <<>>
    /\ retrieval = "none"
    /\ tokenCount = 0
    /\ completionCalls = 0
    /\ failedAt = "none"
    /\ framesAtFailure = <<>>

EmbedIdle ==
    /\ cache = <<>>
    /\ now = 0
    /\ embedOp = [kind |-> "none"]
    /\ lastEmbed = [kind |-> "none"]
    /\ lastStore = <<>>

NoDoc == [id |-> "none"]

NoResult == [status |-> "none"]

\* no ingestion has run: empty blob container, empty collection
IngestIdle ==
    /\ ipc = "idle"
    /\ ingestDoc = NoDoc
    /\ ingestChunks = <<>>
    /\ chunkIdx = 0
    /\ chunkEmbeddings = <<>>
    /\ embedLog = <<>>
    /\ blobs = {}
    /\ blobOutcome = "none"
    /\ chunkOutcome = "none"
    /\ index = {}
    /\ uuidSeq = 0
    /\ storeArgs = <<>>
    /\ vectorOutcome = "none"
    /\ ingestResult = NoResult
    /\ ingestCount = 0

NoMetrics == [query_id |-> "none"]

\* no query, evaluation or feedback has run: empty evaluation-logs container
QueryIdle ==
    /\ qMode = "none"
    /\ qpc = "idle"
    /\ qId = "none"
    /\ qDocs = <<>>
    /\ qResponse = <<>>
    /\ qCalls = 0
    /\ qEval = NoMetrics
    /\ qResult = NoResult
    /\ clock = 0
    /\ queryIds = <<>>
    /\ evalLogs = {}

NoRequest == [kind |-> "none"]

\* no delete, list or feedback request has been made
RequestIdle ==
    /\ lastDelete = NoRequest
    /\ deleteCount = 0
    /\ lastList = NoRequest
    /\ lastFeedback = NoRequest

\* _chunk_generator has not been called
GenIdle ==
    /\ genText = <<>>
    /\ genSize = 0
    /\ genOverlap = 0
    /\ genStart = 0
    /\ genPc = "idle"
    /\ genLast = <<>>

ChunkInit ==
    /\ chunkText \in Texts
    /\ chunkPc = "input"
    /\ chunkOut = <<>>
    /\ StreamIdle
    /\ EmbedIdle
    /\ IngestIdle
    /\ QueryIdle
    /\ RequestIdle
    /\ GenIdle

CallChunkText ==
    /\ chunkPc = "input"
    /\ chunkOut' = ChunkTextOf(chunkText)
    /\ chunkPc' = "done"
    /\ UNCHANGED <<chunkText, nonChunkVars>>

ChunkNext == CallChunkText

SpecChunk == ChunkInit /\ [][ChunkNext]_vars

(***************************************************************************)
(* Claims about the chunker.                                               *)
(***************************************************************************)
\* c is t with its leading and trailing whitespace removed, said without Strip
IsTrimOf(c, t) ==
    \E i \in 1..(Len(t) + 1) :
        \E j \in (i - 1)..Len(t) :
            /\ c = SubSeq(t, i, j)
            /\ \A k \in 1..(i - 1) : t[k] \in Whitespace
            /\ \A k \in (j + 1)..Len(t) : t[k] \in Whitespace
            /\ c # <<>> => (c[1] \notin Whitespace /\ c[Len(c)] \notin Whitespace)

\* C9: for every text shorter than the chunk size, the empty text included,
\* the chunker returns exactly one chunk, and it is the trimmed input.
C9_ShortTextSingleTrimmedChunk ==
    (chunkPc = "done" /\ Len(chunkText) < ChunkLimit)
        => (Len(chunkOut) = 1 /\ IsTrimOf(chunkOut[1], chunkText))

\* a short text with whitespace to trim has been chunked to a non-empty chunk
C9_Witness ==
    /\ chunkPc = "done"
    /\ Len(chunkText) < ChunkLimit
    /\ chunkText # <<>>
    /\ chunkText[1] \in Whitespace
    /\ Len(chunkOut) = 1
    /\ chunkOut[1] # <<>>

\* the last k characters of c1 are the first k characters of c2
SharesOverlap(c1, c2, k) ==
    /\ k <= Len(c1)
    /\ k <= Len(c2)
    /\ SubSeq(c1, Len(c1) - k + 1, Len(c1)) = SubSeq(c2, 1, k)

RECURSIVE Reconstructions(_)
\* every text obtained by concatenating the chunks with an overlap of at most
\* ChunkOverlap characters removed at each boundary
Reconstructions(cs) ==
    IF cs = <<>>
    THEN {<<>>}
    ELSE IF Len(cs) = 1
    THEN {cs[1]}
    ELSE LET rest == Reconstructions(Tail(cs))
             ks == {k \in 0..ChunkOverlap : SharesOverlap(cs[1], cs[2], k)}
         IN  {SubSeq(cs[1], 1, Len(cs[1]) - k) \o r : k \in ks, r \in rest}

\* C10: for every text longer than the chunk size, consecutive chunks share
\* an overlapping suffix/prefix (of 1 to the configured overlap length, to
\* allow for break-point adjustment), and the chunks with the overlaps
\* removed reconstruct the text (up to the trimming of its ends).
C10_OverlapAndReconstruction ==
    (chunkPc = "done" /\ Len(chunkText) > ChunkLimit)
        => /\ \A i \in 1..(Len(chunkOut) - 1) :
                \E k \in 1..ChunkOverlap :
                    SharesOverlap(chunkOut[i], chunkOut[i + 1], k)
           /\ \/ chunkText \in Reconstructions(chunkOut)
              \/ Strip(chunkText) \in Reconstructions(chunkOut)

\* C11: for every input text, every chunk the chunker produces is at most
\* the maximum chunk size long, also when one paragraph of the text is
\* longer than the maximum.
C11_ChunkWithinMaxSize ==
    (chunkPc = "done")
        => \A i \in 1..Len(chunkOut) : Len(chunkOut[i]) <= ChunkLimit

(***************************************************************************)
(* The sliding-window chunker: RAGSystem._chunk_generator, consumed to its *)
(* end.  GenSizeCap and GenOverlapCap stand for the literals 1000 and 100  *)
(* of rag.py:439-440, scaled down.  Positions are Python's, from 0, and a  *)
(* negative position counts from the end of the text.  The configurations  *)
(* covered have an overlap of at most the chunk size; with a larger        *)
(* overlap start decreases without bound.                                  *)
(***************************************************************************)
MaxGenTextLen == 4

MaxGenSize == 3

GenSizeCap == 3

GenOverlapCap == 2

GenAlphabet == {"a", ".", " "}

GenTexts == UNION {[1..n -> GenAlphabet] : n \in 0..MaxGenTextLen}

\* settings.CHUNK_SIZE and settings.CHUNK_OVERLAP
GenConfigs ==
    {c \in [size : 1..MaxGenSize, overlap : 0..MaxGenSize] :
        c.overlap <= c.size}

Min(a, b) == IF a <= b THEN a ELSE b

\* a slice bound of Python: negative counts from the end, then clamped
SliceBound(i, n) ==
    IF i < 0 THEN (IF i + n < 0 THEN 0 ELSE i + n) ELSE Min(i, n)

\* s[a:b]
Slice(s, a, b) ==
    SubSeq(s, SliceBound(a, Len(s)) + 1, SliceBound(b, Len(s)))

\* s.rfind(c, a, b): the highest position of c within s[a:b], or -1
RFind(s, c, a, b) ==
    LET lo == SliceBound(a, Len(s))
        hi == SliceBound(b, Len(s))
        hits == {p \in lo..(hi - 1) : s[p + 1] = c}
    IN  IF hits = {} THEN -1 ELSE CHOOSE p \in hits : \A q \in hits : q <= p

\* for char in ['.', '!', '?', '\n', ' ']
BreakChars == <<".", "!", "?", "\n", " ">>

\* the end of the chunk that begins at start
GenEnd(text, start, size) ==
    LET end == Min(start + size, Len(text))
        found == {k \in 1..Len(BreakChars) :
                     RFind(text, BreakChars[k], start, end) # -1}
        first == CHOOSE k \in found : \A j \in found : k <= j
    IN  IF end < Len(text) /\ found # {}
        THEN RFind(text, BreakChars[first], start, end) + 1
        ELSE end

GenInit ==
    /\ genText \in GenTexts
    /\ \E c \in GenConfigs :
          /\ genSize = Min(c.size, GenSizeCap)
          /\ genOverlap = Min(c.overlap, GenOverlapCap)
    /\ genStart = 0
    /\ genPc = "loop"
    /\ genLast = <<>>
    /\ ChunkIdle
    /\ StreamIdle
    /\ EmbedIdle
    /\ IngestIdle
    /\ QueryIdle
    /\ RequestIdle

\* one pass of the while loop: the chunk is yielded if it is not empty, start
\* moves to end - chunk_overlap, and the loop is left if start >= end
GenIterate ==
    /\ genPc = "loop"
    /\ genStart < Len(genText)
    /\ LET end == GenEnd(genText, genStart, genSize)
           chunk == Strip(Slice(genText, genStart, end))
       IN  /\ genLast' = IF chunk # <<>> THEN chunk ELSE genLast
           /\ genStart' = end - genOverlap
           /\ genPc' = IF genStart' >= end THEN "done" ELSE "loop"
    /\ UNCHANGED <<genText, genSize, genOverlap, nonGenVars>>

\* while start < length: the condition is false
GenExit ==
    /\ genPc = "loop"
    /\ genStart >= Len(genText)
    /\ genPc' = "done"
    /\ UNCHANGED <<genText, genSize, genOverlap, genStart, genLast,
                   nonGenVars>>

GenNext ==
    \/ GenIterate
    \/ GenExit

\* the consumer takes chunks until the generator is exhausted
SpecGenerator == GenInit /\ [][GenNext]_vars /\ WF_vars(GenNext)

\* C22: the chunker loop terminates for every text and every configuration.
\* It ends, and ends with start >= length(text) or with the configuration
\* rejected; each pass of the loop that is followed by another has strictly
\* advanced start; and a configuration whose overlap is not below the chunk
\* size is rejected instead of being run.
C22_ChunkerTerminates ==
    /\ <>(genPc \in {"done", "rejected"})
    /\ [](genPc = "done" => genStart >= Len(genText))
    /\ [][genPc' = "loop" => genStart' > genStart]_vars
    /\ (genOverlap >= genSize) => <>(genPc = "rejected")

(***************************************************************************)
(* The streaming query path: RAGSystem.process_query_stream (the producer) *)
(* and the SSE generators of routes/query.py (the transport).  A generator *)
(* runs only while its consumer awaits its next event, so the producer     *)
(* steps when the transport holds no event, and the transport steps when   *)
(* it holds one or the producer has returned.                              *)
(***************************************************************************)
MaxDocs == 2

MaxTokens == 2

\* similarity scores in percent: settings.SIMILARITY_THRESHOLD is 0.7
SimilarityThreshold == 70

\* the similarity a stored point can have to a query, on either side of the
\* threshold
Scores == {50, SimilarityThreshold, 100}

\* the points of the collection that match a query's filter, by their score
CandidateLists == UNION {[1..n -> Scores] : n \in 0..(MaxDocs + 1)}

\* a score threshold that admits every point
ScoreAdmittedAlways(score) == TRUE

\* score_threshold=self.settings.SIMILARITY_THRESHOLD
ScoreAdmitted(score) == score >= SimilarityThreshold

RECURSIVE InsertDescending(_, _)
InsertDescending(x, xs) ==
    IF xs = <<>> THEN <<x>>
    ELSE IF x >= Head(xs) THEN <<x>> \o xs
    ELSE <<Head(xs)>> \o InsertDescending(x, Tail(xs))

RECURSIVE SortDescending(_)
SortDescending(xs) ==
    IF xs = <<>> THEN <<>>
    ELSE InsertDescending(Head(xs), SortDescending(Tail(xs)))

\* the first k elements of xs
Take(xs, k) == SubSeq(xs, 1, IF Len(xs) < k THEN Len(xs) ELSE k)

\* client.search(..., limit=MAX_DOCUMENTS, score_threshold=...): the best
\* hits at or above the threshold, best first, at most MaxDocs of them
SearchHits(candidates) ==
    Take(SortDescending(SelectSeq(candidates, ScoreAdmitted)), MaxDocs)

\* the results search_similar can return
DocLists == {SearchHits(candidates) : candidates \in CandidateLists}

Transports == {"event_generator", "generate_stream_response"}

NoEvent == [type |-> "none"]

RECURSIVE SumSeq(_)
SumSeq(xs) == IF xs = <<>> THEN 0 ELSE Head(xs) + SumSeq(Tail(xs))

ErrorEvent(message) == [type |-> "error", data |-> message]

SourcesEvent(docs) == [type |-> "sources", data |-> docs]

TokenEvent(n) == [type |-> "token", data |-> n]

\* confidence is sum(similarity) / len(relevant_docs), kept as the exact pair
MetadataEvent(docs, tokens) ==
    [type |-> "metadata",
     data |-> [confidence |-> <<SumSeq(docs), Len(docs)>>,
               sources_count |-> Len(docs),
               token_count |-> tokens]]

\* f"data: {json.dumps(event)}\n\n"
EventFrame(event) == [line |-> "data", type |-> event.type, body |-> event]

\* "data: [DONE]\n\n"
DoneFrame == [line |-> "data", type |-> "[DONE]"]

StreamInit ==
    /\ transport \in Transports
    /\ spc = "embed"
    /\ tpc = "iterate"
    /\ out = NoEvent
    /\ frames = <<>>
    /\ relevantDocs = <<>>
    /\ retrieval = "none"
    /\ tokenCount = 0
    /\ completionCalls = 0
    /\ failedAt = "none"
    /\ framesAtFailure = <<>>
    /\ ChunkIdle
    /\ EmbedIdle
    /\ IngestIdle
    /\ QueryIdle
    /\ RequestIdle
    /\ GenIdle

\* the producer is being iterated and has not yielded yet
ProducerRuns(at) ==
    /\ tpc = "iterate"
    /\ out = NoEvent
    /\ spc = at

\* an exception raised inside the try of process_query_stream
Raise(step) ==
    /\ spc' = "except"
    /\ failedAt' = step
    /\ framesAtFailure' = frames

\* query_embedding = await self.azure_client.generate_embedding(query)
EmbedQuery ==
    /\ ProducerRuns("embed")
    /\ \/ /\ spc' = "search"
          /\ UNCHANGED <<failedAt, framesAtFailure>>
       \/ Raise("embedding")
    /\ UNCHANGED <<transport, tpc, out, frames, relevantDocs, retrieval,
                   tokenCount, completionCalls, nonStreamVars>>

\* relevant_docs = await self.vector_store.search_similar(...)
SearchSimilar ==
    /\ ProducerRuns("search")
    /\ \/ \E docs \in DocLists :
              /\ relevantDocs' = docs
              /\ retrieval' = IF docs = <<>> THEN "empty" ELSE "found"
              /\ spc' = "branch"
              /\ UNCHANGED <<failedAt, framesAtFailure>>
       \/ /\ Raise("search")
          /\ UNCHANGED <<relevantDocs, retrieval>>
    /\ UNCHANGED <<transport, tpc, out, frames, tokenCount, completionCalls,
                   nonStreamVars>>

\* a variant of NoRelevantDocs that reports the error and goes on to generate
NoRelevantDocsNoReturn ==
    /\ ProducerRuns("branch")
    /\ relevantDocs = <<>>
    /\ out' = ErrorEvent("No relevant information found.")
    /\ spc' = "generate"
    /\ UNCHANGED <<transport, tpc, frames, relevantDocs, retrieval, tokenCount,
                   completionCalls, failedAt, framesAtFailure, nonStreamVars>>

\* if not relevant_docs: yield the error event; return
NoRelevantDocs ==
    /\ ProducerRuns("branch")
    /\ relevantDocs = <<>>
    /\ out' = ErrorEvent("No relevant information found.")
    /\ spc' = "return"
    /\ UNCHANGED <<transport, tpc, frames, relevantDocs, retrieval, tokenCount,
                   completionCalls, failedAt, framesAtFailure, nonStreamVars>>

\* a variant of YieldSources that starts generating without sending the sources
YieldSourcesSkipped ==
    /\ ProducerRuns("branch")
    /\ relevantDocs # <<>>
    /\ spc' = "generate"
    /\ UNCHANGED <<transport, tpc, out, frames, relevantDocs, retrieval,
                   tokenCount, completionCalls, failedAt, framesAtFailure,
                   nonStreamVars>>

\* yield {"type": "sources", "data": relevant_docs}
YieldSources ==
    /\ ProducerRuns("branch")
    /\ relevantDocs # <<>>
    /\ out' = SourcesEvent(relevantDocs)
    /\ spc' = "generate"
    /\ UNCHANGED <<transport, tpc, frames, relevantDocs, retrieval, tokenCount,
                   completionCalls, failedAt, framesAtFailure, nonStreamVars>>

\* the first step of generate_completion_stream: the request to the provider
OpenCompletion ==
    /\ ProducerRuns("generate")
    /\ completionCalls' = completionCalls + 1
    /\ \/ /\ spc' = "tokens"
          /\ UNCHANGED <<failedAt, framesAtFailure>>
       \/ Raise("provider")
    /\ UNCHANGED <<transport, tpc, out, frames, relevantDocs, retrieval,
                   tokenCount, nonStreamVars>>

\* one turn of `async for token in generate_completion_stream(prompt)`
NextToken ==
    /\ ProducerRuns("tokens")
    /\ \/ /\ tokenCount < MaxTokens
          /\ tokenCount' = tokenCount + 1
          /\ out' = TokenEvent(tokenCount + 1)
          /\ UNCHANGED <<spc, failedAt, framesAtFailure>>
       \/ /\ spc' = "metrics"
          /\ UNCHANGED <<tokenCount, out, failedAt, framesAtFailure>>
       \/ /\ Raise("provider")
          /\ UNCHANGED <<tokenCount, out>>
    /\ UNCHANGED <<transport, tpc, frames, relevantDocs, retrieval,
                   completionCalls, nonStreamVars>>

\* yield {"type": "metadata", ...}
YieldMetadata ==
    /\ ProducerRuns("metrics")
    /\ out' = MetadataEvent(relevantDocs, tokenCount)
    /\ spc' = "return"
    /\ UNCHANGED <<transport, tpc, frames, relevantDocs, retrieval, tokenCount,
                   completionCalls, failedAt, framesAtFailure, nonStreamVars>>

\* except Exception as e: yield {"type": "error", "data": str(e)}
YieldError ==
    /\ ProducerRuns("except")
    /\ out' = ErrorEvent(failedAt)
    /\ spc' = "return"
    /\ UNCHANGED <<transport, tpc, frames, relevantDocs, retrieval, tokenCount,
                   completionCalls, failedAt, framesAtFailure, nonStreamVars>>

\* the producer runs off its end: the consumer's async for is exhausted
ProducerReturns ==
    /\ ProducerRuns("return")
    /\ spc' = "returned"
    /\ tpc' = "marker"
    /\ UNCHANGED <<transport, out, frames, relevantDocs, retrieval, tokenCount,
                   completionCalls, failedAt, framesAtFailure, nonStreamVars>>

\* the transport sends an event that is not an error and asks for the next
ForwardEvent ==
    /\ tpc = "iterate"
    /\ out # NoEvent
    /\ out.type # "error" \/ transport = "generate_stream_response"
    /\ frames' = Append(frames, EventFrame(out))
    /\ out' = NoEvent
    /\ UNCHANGED <<transport, spc, tpc, relevantDocs, retrieval, tokenCount,
                   completionCalls, failedAt, framesAtFailure, nonStreamVars>>

\* event_generator: if event["type"] == "error": yield it; break
ForwardErrorAndBreak ==
    /\ tpc = "iterate"
    /\ out # NoEvent
    /\ out.type = "error"
    /\ transport = "event_generator"
    /\ frames' = Append(frames, EventFrame(out))
    /\ out' = NoEvent
    /\ tpc' = "marker"
    /\ UNCHANGED <<transport, spc, relevantDocs, retrieval, tokenCount,
                   completionCalls, failedAt, framesAtFailure, nonStreamVars>>

\* yield "data: [DONE]\n\n" (after the loop, or in the finally clause)
SendDone ==
    /\ tpc = "marker"
    /\ frames' = Append(frames, DoneFrame)
    /\ tpc' = "closed"
    /\ UNCHANGED <<transport, spc, out, relevantDocs, retrieval, tokenCount,
                   completionCalls, failedAt, framesAtFailure, nonStreamVars>>

\* A statement of the transport's own try block raises while it holds an
\* event: json.dumps before the frame is sent, or the sleep after it.  The
\* except clause sends an error frame.  generate_stream_response then runs
\* its finally clause; event_generator ends there.
TransportFault ==
    /\ tpc = "iterate"
    /\ out # NoEvent
    /\ failedAt = "none"
    /\ \E sent \in BOOLEAN :
           LET delivered == IF sent THEN Append(frames, EventFrame(out))
                            ELSE frames
           IN  /\ sent => (out.type # "error" /\ transport = "event_generator")
               /\ failedAt' = "transport"
               /\ framesAtFailure' = delivered
               /\ frames' = Append(delivered, EventFrame(ErrorEvent("transport")))
    /\ out' = NoEvent
    /\ tpc' = IF transport = "generate_stream_response" THEN "marker"
              ELSE "closed"
    /\ UNCHANGED <<transport, spc, relevantDocs, retrieval, tokenCount,
                   completionCalls, nonStreamVars>>

StreamNext ==
    \/ EmbedQuery
    \/ SearchSimilar
    \/ NoRelevantDocs
    \/ YieldSources
    \/ OpenCompletion
    \/ NextToken
    \/ YieldMetadata
    \/ YieldError
    \/ ProducerReturns
    \/ ForwardEvent
    \/ ForwardErrorAndBreak
    \/ SendDone

\* the streams in which no statement of the transport itself raises
SpecStream == StreamInit /\ [][StreamNext]_vars

\* the streams in which a statement of the transport may raise as well
SpecStreamFault == StreamInit /\ [][StreamNext \/ TransportFault]_vars

(***************************************************************************)
(* Claims about the streaming path.                                        *)
(***************************************************************************)
FrameTypes == [i \in 1..Len(frames) |-> frames[i].type]

TerminalTypes == {"metadata", "error"}

\* sources, then tokens, then one terminal event, then the sentinel
IsCompleteStream(ts) ==
    /\ Len(ts) >= 3
    /\ ts[1] = "sources"
    /\ \A i \in 2..(Len(ts) - 2) : ts[i] = "token"
    /\ ts[Len(ts) - 1] \in TerminalTypes
    /\ ts[Len(ts)] = "[DONE]"

\* what has been delivered so far can still grow into a complete stream
IsStreamPrefix(ts) ==
    \A i \in 1..Len(ts) :
        /\ (ts[i] = "sources") <=> (i = 1)
        /\ ts[i] = "token" => \A j \in 2..(i - 1) : ts[j] = "token"
        /\ ts[i] \in TerminalTypes =>
               /\ \A j \in 2..(i - 1) : ts[j] = "token"
               /\ i = Len(ts) \/ (i = Len(ts) - 1 /\ ts[Len(ts)] = "[DONE]")
        /\ ts[i] = "[DONE]" => (i = Len(ts) /\ i >= 3 /\ ts[i - 1] \in TerminalTypes)

\* C1: when retrieval returned at least one chunk, the frames delivered are
\* one sources event, then token events, then exactly one terminal event
\* (metadata or error), then [DONE]; nothing follows the terminal event but
\* the sentinel and no token precedes sources.
C1_StreamFrameOrder ==
    retrieval = "found" =>
        /\ IsStreamPrefix(FrameTypes)
        /\ tpc = "closed" => IsCompleteStream(FrameTypes)

\* a stream with sources and tokens has ended with metadata and the sentinel
C1_Witness ==
    /\ tpc = "closed"
    /\ retrieval = "found"
    /\ tokenCount = MaxTokens
    /\ Len(frames) = MaxTokens + 3
    /\ frames[Len(frames) - 1].type = "metadata"

\* C2: when search returns no source, the stream is exactly one error event
\* followed by [DONE], with no sources, token or metadata event, and the
\* completion provider is never called.
C2_NoSourcesErrorThenDone ==
    retrieval = "empty" =>
        /\ completionCalls = 0
        /\ \A i \in 1..Len(frames) : frames[i].type \in {"error", "[DONE]"}
        /\ Len(frames) <= 2
        /\ tpc = "closed" => FrameTypes = <<"error", "[DONE]">>

\* a stream whose search found nothing has ended
C2_Witness ==
    /\ tpc = "closed"
    /\ retrieval = "empty"
    /\ Len(frames) = 2

\* C3: whatever step fails (query embedding, search, the provider after k
\* tokens, or the transport generator itself), the caller receives what was
\* delivered before the failure unchanged, then an error event, then [DONE].
C3_FailureEndsWithErrorThenDone ==
    (tpc = "closed" /\ failedAt # "none") =>
        /\ Len(frames) = Len(framesAtFailure) + 2
        /\ SubSeq(frames, 1, Len(framesAtFailure)) = framesAtFailure
        /\ frames[Len(frames) - 1].type = "error"
        /\ frames[Len(frames)].type = "[DONE]"

(***************************************************************************)
(* The embedding cache: EmbeddingsService.generate_embeddings for a single *)
(* text and for a batch, over a Redis store with expiring entries and a    *)
(* deterministic embedding provider.  Time is counted in days.  A cache    *)
(* get or set that raises is swallowed by the service; the provider may    *)
(* fail, and the retry decorator then runs the whole call again.           *)
(***************************************************************************)
MaxTime == 8

MaxBatchLen == 6

\* self.cache_ttl = timedelta(days=7)
CacheTtlDays == 7

\* self.batch_size = 5
BatchSize == 5

\* stop=stop_after_attempt(3)
MaxAttempts == 3

EmbedTexts == {<<"a", "b">>, <<"a", "c">>}

CharCode(c) == CASE c = "a" -> 1 [] c = "b" -> 2 [] OTHER -> 3

\* the provider: a fixed vector per text, distinct for the texts of the model
ProviderEmbedding(t) ==
    IF t = <<>> THEN <<0, 0>> ELSE <<CharCode(t[1]), CharCode(t[Len(t)])>>

\* hashlib.sha256(text.encode()).hexdigest(): one digest per text
Sha256(t) == <<"sha256">> \o t

\* a variant of CacheKey that hashes only the first character of the text
CacheKeyOfPrefix(t) == <<"emb:">> \o Sha256(SubSeq(t, 1, 1))

\* _get_cache_key: f"emb:{sha256(text)}"
CacheKey(t) == <<"emb:">> \o Sha256(t)

EmbedKeys == {CacheKey(t) : t \in EmbedTexts}

Digit(n) == CASE n = 0 -> "0" [] n = 1 -> "1" [] n = 2 -> "2" [] n = 3 -> "3"
              [] n = 4 -> "4" [] n = 5 -> "5" [] n = 6 -> "6" [] n = 7 -> "7"
              [] n = 8 -> "8" [] OTHER -> "9"

DigitValue(c) == CHOOSE n \in 0..9 : Digit(n) = c

RECURSIVE JsonItems(_)
JsonItems(v) ==
    IF v = <<>> THEN <<>>
    ELSE IF Len(v) = 1 THEN <<Digit(v[1])>>
    ELSE <<Digit(v[1]), ",", " ">> \o JsonItems(Tail(v))

\* json.dumps of a list of numbers: "[1, 2]", character by character
JsonDumps(v) == <<"[">> \o JsonItems(v) \o <<"]">>

RECURSIVE JsonParseItems(_)
JsonParseItems(cs) ==
    IF cs = <<>> THEN <<>>
    ELSE IF Head(cs) \in {",", " "} THEN JsonParseItems(Tail(cs))
    ELSE <<DigitValue(Head(cs))>> \o JsonParseItems(Tail(cs))

\* json.loads of such a string
JsonLoads(s) == JsonParseItems(SubSeq(s, 2, Len(s) - 1))

NoEntry == [present |-> FALSE]

NoVector == <<>>

\* _get_cached_embedding: the stored vector, or None when the key is absent,
\* expired, or the store raises (ok = FALSE)
CachedEmbedding(t, ok) ==
    LET e == cache[CacheKey(t)]
    IN  IF ok /\ e.present /\ now < e.expires
        THEN JsonLoads(e.value)
        ELSE NoVector

\* a variant of CacheAfterSet that stores nothing
CacheAfterSetDropped(c, t, embedding, ok) == c

\* _cache_embedding: setex(key, cache_ttl, json.dumps(embedding)); a store
\* that raises (ok = FALSE) leaves the cache as it was
CacheAfterSet(c, t, embedding, ok) ==
    IF ok
    THEN [c EXCEPT ![CacheKey(t)] =
             [present |-> TRUE,
              value |-> JsonDumps(embedding),
              expires |-> now + CacheTtlDays]]
    ELSE c

\* the text's embedding was written to the cache less than a TTL ago
WrittenWithinTtl(t) == lastStore[t] >= 0 /\ now - lastStore[t] < CacheTtlDays

NoOp == [kind |-> "none"]

EmbedInitCommon ==
    /\ cache = [k \in EmbedKeys |-> NoEntry]
    /\ now = 0
    /\ embedOp = NoOp
    /\ lastEmbed = NoOp
    /\ lastStore = [t \in EmbedTexts |-> -1]
    /\ ChunkIdle
    /\ StreamIdle
    /\ IngestIdle
    /\ QueryIdle
    /\ RequestIdle
    /\ GenIdle

\* what a finished call leaves in lastEmbed
Finished(op, status, result, calls, getOk, fresh) ==
    [kind |-> op.kind, texts |-> op.texts, useCache |-> op.useCache,
     status |-> status, result |-> result, calls |-> calls,
     attempts |-> op.attempt, getOk |-> getOk, fresh |-> fresh]

\* one attempt of generate_embeddings on a single text:
\* _generate_single_embedding, and what the retry decorator does on failure
SingleAttempt(op) ==
    \E getOk, setOk, providerOk \in BOOLEAN :
        LET t == op.texts[1]
            cached == IF op.useCache THEN CachedEmbedding(t, getOk)
                      ELSE NoVector
            fresh == WrittenWithinTtl(t)
        IN  IF cached # NoVector
            THEN /\ lastEmbed' = Finished(op, "ok", cached, op.calls, getOk, fresh)
                 /\ embedOp' = NoOp
                 /\ UNCHANGED <<cache, lastStore>>
            ELSE IF providerOk
            THEN /\ cache' = IF op.useCache
                             THEN CacheAfterSet(cache, t, ProviderEmbedding(t), setOk)
                             ELSE cache
                 /\ lastStore' = IF op.useCache /\ setOk
                                 THEN [lastStore EXCEPT ![t] = now]
                                 ELSE lastStore
                 /\ lastEmbed' = Finished(op, "ok", ProviderEmbedding(t),
                                          op.calls + 1, getOk, fresh)
                 /\ embedOp' = NoOp
            ELSE /\ IF op.attempt < MaxAttempts
                    THEN /\ embedOp' = [op EXCEPT !.attempt = @ + 1,
                                                  !.calls = @ + 1]
                         /\ UNCHANGED lastEmbed
                    ELSE /\ embedOp' = NoOp
                         /\ lastEmbed' = Finished(op, "error", NoVector,
                                                  op.calls + 1, getOk, fresh)
                 /\ UNCHANGED <<cache, lastStore>>

\* embed(t): generate_embeddings(text, use_cache), first attempt
CallEmbedSingle ==
    /\ embedOp = NoOp
    /\ lastEmbed = NoOp
    /\ \E t \in EmbedTexts, useCache \in BOOLEAN :
           SingleAttempt([kind |-> "single", texts |-> <<t>>,
                          useCache |-> useCache, attempt |-> 1, calls |-> 0])
    /\ UNCHANGED <<now, nonEmbedVars>>

\* the retry decorator runs generate_embeddings again
RetryEmbedSingle ==
    /\ embedOp # NoOp
    /\ embedOp.kind = "single"
    /\ SingleAttempt(embedOp)
    /\ UNCHANGED <<now, nonEmbedVars>>

\* the caller takes the result (or the error) of the finished call
TakeResult ==
    /\ embedOp = NoOp
    /\ lastEmbed # NoOp
    /\ lastEmbed' = NoOp
    /\ UNCHANGED <<cache, now, embedOp, lastStore, nonEmbedVars>>

\* a day passes between calls
Tick ==
    /\ embedOp = NoOp
    /\ lastEmbed = NoOp
    /\ now < MaxTime
    /\ now' = now + 1
    /\ UNCHANGED <<cache, embedOp, lastEmbed, lastStore, nonEmbedVars>>

EmbedNext ==
    \/ CallEmbedSingle
    \/ RetryEmbedSingle
    \/ TakeResult
    \/ Tick

SpecEmbed == EmbedInitCommon /\ [][EmbedNext]_vars

(***************************************************************************)
(* Batch embedding: _generate_batch_embeddings.  The cache is looked up    *)
(* for every text first; the misses are sent to the provider in groups of  *)
(* BatchSize (asyncio.gather: one failing call fails the group, after all  *)
(* of its calls were issued); each finished group is cached; the final     *)
(* list is assembled from the cached and the new vectors.                  *)
(***************************************************************************)
TextLists == UNION {[1..n -> EmbedTexts] : n \in 0..MaxBatchLen}

RECURSIVE Ascending(_)
\* the members of a set of indices, in increasing order
Ascending(S) ==
    IF S = {}
    THEN <<>>
    ELSE LET m == CHOOSE x \in S : \A y \in S : x <= y
         IN  <<m>> \o Ascending(S \ {m})

\* a variant of PopIndex that takes the last element: list.pop()
PopIndexLast(allEmbeddings) == Len(allEmbeddings)

\* all_embeddings.pop(0) takes the first element
PopIndex(allEmbeddings) == 1

RemoveAt(xs, k) == SubSeq(xs, 1, k - 1) \o SubSeq(xs, k + 1, Len(xs))

RECURSIVE Assemble(_, _, _, _, _, _)
\* the loop that fills final_embeddings[i] for i = start .. n
Assemble(i, n, cachedIndices, results, embeddingIdx, allEmbeddings) ==
    IF i > n
    THEN <<>>
    ELSE IF i \in cachedIndices
    THEN <<results[embeddingIdx]>>
             \o Assemble(i + 1, n, cachedIndices, results, embeddingIdx + 1,
                         allEmbeddings)
    ELSE LET k == PopIndex(allEmbeddings)
         IN  <<allEmbeddings[k]>>
                 \o Assemble(i + 1, n, cachedIndices, results, embeddingIdx,
                             RemoveAt(allEmbeddings, k))

\* range(0, len(batch), batch_size): the number of groups
GroupCount(n) == (n + BatchSize - 1) \div BatchSize

\* how many of the first n misses lie in groups 1..g
InGroups(n, g) == IF g * BatchSize < n THEN g * BatchSize ELSE n

RECURSIVE CacheAfterSetAll(_, _, _)
CacheAfterSetAll(c, ts, ok) ==
    IF ts = <<>>
    THEN c
    ELSE CacheAfterSetAll(
             CacheAfterSet(c, Head(ts), ProviderEmbedding(Head(ts)), ok),
             Tail(ts), ok)

FinishedBatch(op, status, result, calls, cachedIndices) ==
    [kind |-> "batch", texts |-> op.texts, useCache |-> op.useCache,
     status |-> status, result |-> result, calls |-> calls,
     attempts |-> op.attempt, hits |-> Cardinality(cachedIndices),
     firstHit |-> 1 \in cachedIndices]

\* one attempt of generate_embeddings on a list of texts
BatchAttempt(op) ==
    LET texts == op.texts
        n == Len(texts)
    IN  \E getOk, setOk \in BOOLEAN :
            LET cachedAt(i) == IF op.useCache
                               THEN CachedEmbedding(texts[i], getOk)
                               ELSE NoVector
                cachedIndices == {i \in 1..n : cachedAt(i) # NoVector}
                hitOrder == Ascending(cachedIndices)
                results == [j \in 1..Len(hitOrder) |-> cachedAt(hitOrder[j])]
                batch == Ascending((1..n) \ cachedIndices)
                misses == Len(batch)
                stored(g) == [j \in 1..InGroups(misses, g) |-> texts[batch[j]]]
                written(g) == {stored(g)[j] : j \in 1..InGroups(misses, g)}
                after(g) ==
                    /\ cache' = IF op.useCache
                                THEN CacheAfterSetAll(cache, stored(g), setOk)
                                ELSE cache
                    /\ lastStore' = IF op.useCache /\ setOk
                                    THEN [t \in EmbedTexts |->
                                             IF t \in written(g) THEN now
                                             ELSE lastStore[t]]
                                    ELSE lastStore
            IN  \E failGroup \in 0..GroupCount(misses) :
                    IF failGroup = 0
                    THEN LET allEmbeddings ==
                                 [j \in 1..misses |->
                                     ProviderEmbedding(texts[batch[j]])]
                         IN  /\ after(GroupCount(misses))
                             /\ embedOp' = NoOp
                             /\ lastEmbed' = FinishedBatch(
                                    op, "ok",
                                    Assemble(1, n, cachedIndices, results, 1,
                                             allEmbeddings),
                                    op.calls + misses, cachedIndices)
                    ELSE /\ after(failGroup - 1)
                         /\ IF op.attempt < MaxAttempts
                            THEN /\ embedOp' =
                                        [op EXCEPT
                                            !.attempt = @ + 1,
                                            !.calls = @ + InGroups(misses, failGroup)]
                                 /\ UNCHANGED lastEmbed
                            ELSE /\ embedOp' = NoOp
                                 /\ lastEmbed' = FinishedBatch(
                                        op, "error", <<>>,
                                        op.calls + InGroups(misses, failGroup),
                                        cachedIndices)

\* embed(texts): generate_embeddings(list, use_cache), first attempt
CallEmbedBatch ==
    /\ embedOp = NoOp
    /\ lastEmbed = NoOp
    /\ \E texts \in TextLists, useCache \in BOOLEAN :
           BatchAttempt([kind |-> "batch", texts |-> texts,
                         useCache |-> useCache, attempt |-> 1, calls |-> 0])
    /\ UNCHANGED <<now, nonEmbedVars>>

\* the retry decorator runs generate_embeddings again on the list
RetryEmbedBatch ==
    /\ embedOp # NoOp
    /\ embedOp.kind = "batch"
    /\ BatchAttempt(embedOp)
    /\ UNCHANGED <<now, nonEmbedVars>>

BatchNext ==
    \/ CallEmbedBatch
    \/ RetryEmbedBatch
    \/ TakeResult

SpecBatch == EmbedInitCommon /\ [][BatchNext]_vars

(***************************************************************************)
(* Claims about the embedding cache.                                       *)
(***************************************************************************)
\* C4: with use_cache, a call for a text whose embedding was written to the
\* cache less than a TTL ago issues no provider call (so two calls within
\* the TTL issue exactly one between them), and a call made when no write
\* is that recent (never cached, or expired) issues one: the calls of an
\* operation are its failed attempts plus 0 on a hit and 1 on a miss.
C4_CacheHitWithinTtlMissAfter ==
    (/\ lastEmbed.kind = "single"
     /\ lastEmbed.useCache
     /\ lastEmbed.status = "ok"
     /\ lastEmbed.getOk)
        => lastEmbed.calls =
               (lastEmbed.attempts - 1) + (IF lastEmbed.fresh THEN 0 ELSE 1)

\* a second call, on a later day within the TTL, was served without the provider
C4_Witness ==
    /\ lastEmbed.kind = "single"
    /\ lastEmbed.useCache
    /\ lastEmbed.status = "ok"
    /\ lastEmbed.fresh
    /\ lastEmbed.calls = 0
    /\ now > lastStore[lastEmbed.texts[1]]
    /\ embedOp = NoOp

\* a call made after the entry expired went to the provider again
C4_WitnessExpired ==
    /\ lastEmbed.kind = "single"
    /\ lastEmbed.useCache
    /\ lastEmbed.status = "ok"
    /\ lastEmbed.getOk
    /\ ~lastEmbed.fresh
    /\ lastEmbed.calls = 1
    /\ now >= CacheTtlDays
    /\ cache[CacheKey(lastEmbed.texts[1])].present

\* C5: the batch result has one vector per input text, and the vector at
\* index i is the embedding of texts[i], whatever the hit/miss pattern.
C5_BatchOrderMatchesInput ==
    (lastEmbed.kind = "batch" /\ lastEmbed.status = "ok")
        => /\ Len(lastEmbed.result) = Len(lastEmbed.texts)
           /\ \A i \in 1..Len(lastEmbed.texts) :
                  lastEmbed.result[i] = ProviderEmbedding(lastEmbed.texts[i])

\* a list longer than one group, with repeated texts, whose first text
\* missed the cache while later ones hit it
C5_Witness ==
    /\ lastEmbed.kind = "batch"
    /\ lastEmbed.status = "ok"
    /\ Len(lastEmbed.texts) > BatchSize
    /\ lastEmbed.hits > 0
    /\ lastEmbed.hits < Len(lastEmbed.texts) - 1
    /\ ~lastEmbed.firstHit
    /\ \E i \in 1..Len(lastEmbed.texts) : lastEmbed.texts[i] # lastEmbed.texts[1]

\* C6: the cache is a pure optimisation: whatever the cache holds and
\* whether its gets and sets succeed or raise, a call that returns a vector
\* returns the provider's vector for that text, the one a call without
\* cache returns; only the number of provider calls differs.
C6_CachePureOptimization ==
    (lastEmbed.kind = "single" /\ lastEmbed.status = "ok")
        => lastEmbed.result = ProviderEmbedding(lastEmbed.texts[1])

\* a vector was served from the cache, with no provider call
C6_Witness ==
    /\ lastEmbed.kind = "single"
    /\ lastEmbed.status = "ok"
    /\ lastEmbed.calls = 0
    /\ lastEmbed.result # NoVector


(***************************************************************************)
(* The ingestion path: RAGSystem.ingest_document over the blob container   *)
(* of AzureClient and the collection of VectorStore.  The function awaits  *)
(* the blob store, then each chunk's embedding in turn, then the vector    *)
(* store; each await is a step whose outcome the environment chooses.      *)
(***************************************************************************)
MaxIngests == 2

MaxStamp == 2

DocIds == {"d1", "d2"}

\* second-resolution timestamps store_document may read from the clock
Stamps == 1..MaxStamp

\* documents on either side of the chunker's limit: a small one, one of
\* three paragraphs that do not fit together, one of separators only
DocContents ==
    { <<"a", "b", " ">>,
      <<"a", "a", "a", "\n", "\n", "b", "b", "b", "\n", "\n", "a", "b">>,
      <<"\n", "\n", "\n", "\n", "\n", "\n", "\n", "\n">> }

\* f"{timestamp}_{filename}" with filename f"{document_id}.txt"
BlobName(stamp, documentId) == <<stamp, "_", documentId, ".txt">>

\* how a call of _chunk_text ends.  When its body raises, its handler
\* returns the single chunk for a small text and raises again otherwise.
ChunkTextResult(text, fault) ==
    IF ~fault THEN [raised |-> FALSE, chunks |-> ChunkTextOf(text)]
    ELSE IF IsSmall(text) THEN [raised |-> FALSE, chunks |-> SingleChunk(text)]
    ELSE [raised |-> TRUE, chunks |-> <<>>]

\* "chunks", "empty" or "raised"
ChunkOutcomeOf(result) ==
    IF result.raised THEN "raised"
    ELSE IF result.chunks = <<>> THEN "empty" ELSE "chunks"

\* the chunker's answer taken as it is
ChunksWithoutFallback(result, content) == result.chunks

\* chunks = self._chunk_text(content), or [content.strip()] when that raised
\* or is empty
ChunksWithFallback(result, content) ==
    IF result.raised \/ result.chunks = <<>>
    THEN <<Strip(content)>>
    ELSE result.chunks

\* the entry ingest_document appends for chunk i of n
ChunkEntry(documentId, chunk, i, n) ==
    [content |-> chunk,
     embedding |-> ProviderEmbedding(chunk),
     metadata |-> [document_id |-> documentId, chunk_index |-> i,
                   chunk_total |-> n]]

\* the loop index after an embedding failure, had the handler left the loop
AfterEmbedFailureBreak(i, n) == n

\* the loop index after an embedding failure: `continue`
AfterEmbedFailure(i, n) == i + 1

\* uuid5(base_uuid, f"{document_id}_{i}")
ChunkUuid(base, documentId, i) == <<base, documentId, i>>

\* the points store_embeddings builds from the list it is given
PointsOf(chunks, documentId, base) ==
    { [id |-> ChunkUuid(base, documentId, i),
       vector |-> chunks[i + 1].embedding,
       payload |->
           [document_id |-> documentId,
            content |-> chunks[i + 1].content,
            metadata |-> [document_id |-> documentId,
                          chunk_index |-> i,
                          total_chunks |-> Len(chunks),
                          content_length |-> Len(chunks[i + 1].content)]]]
      : i \in 0..(Len(chunks) - 1) }

\* client.upsert: a point replaces the point of the same id
Upsert(collection, points) ==
    {p \in collection : \A q \in points : q.id # p.id} \cup points

IngestInit ==
    /\ IngestIdle
    /\ ChunkIdle
    /\ StreamIdle
    /\ EmbedIdle
    /\ QueryIdle
    /\ RequestIdle
    /\ GenIdle

\* step 1: store_document; a failure there fails the ingestion
StoreDocument ==
    /\ ipc = "idle"
    /\ ingestCount < MaxIngests
    /\ \E documentId \in DocIds, content \in DocContents, stamp \in Stamps,
          ok \in BOOLEAN :
          /\ ingestDoc' = [id |-> documentId, content |-> content]
          /\ ingestCount' = ingestCount + 1
          /\ IF ok
             THEN /\ blobs' = blobs \cup {BlobName(stamp, documentId)}
                  /\ blobOutcome' = "ok"
                  /\ ipc' = "chunk"
                  /\ ingestResult' = ingestResult
             ELSE /\ blobs' = blobs
                  /\ blobOutcome' = "failed"
                  /\ ipc' = "failed"
                  /\ ingestResult' = [status |-> "error", step |-> "storage"]
    /\ UNCHANGED <<ingestChunks, chunkIdx, chunkEmbeddings, embedLog, index,
                   uuidSeq, storeArgs, vectorOutcome, chunkOutcome,
                   nonIngestVars>>

\* step 2: chunking, with the single-chunk fallback
CreateChunks ==
    /\ ipc = "chunk"
    /\ \E fault \in BOOLEAN :
          LET result == ChunkTextResult(ingestDoc.content, fault)
          IN  /\ chunkOutcome' = ChunkOutcomeOf(result)
              /\ ingestChunks' = ChunksWithFallback(result, ingestDoc.content)
    /\ chunkIdx' = 0
    /\ chunkEmbeddings' = <<>>
    /\ ipc' = "embed"
    /\ UNCHANGED <<ingestDoc, embedLog, blobs, blobOutcome, index, uuidSeq,
                   storeArgs, vectorOutcome, ingestResult, ingestCount,
                   nonIngestVars>>

\* step 3, one turn of the loop: embed chunk i; a failure is logged and skipped
EmbedChunk ==
    /\ ipc = "embed"
    /\ chunkIdx < Len(ingestChunks)
    /\ \E ok \in BOOLEAN :
          /\ embedLog' = Append(embedLog, [index |-> chunkIdx, ok |-> ok])
          /\ IF ok
             THEN /\ chunkEmbeddings' =
                         Append(chunkEmbeddings,
                                ChunkEntry(ingestDoc.id,
                                           ingestChunks[chunkIdx + 1],
                                           chunkIdx, Len(ingestChunks)))
                  /\ chunkIdx' = chunkIdx + 1
             ELSE /\ chunkEmbeddings' = chunkEmbeddings
                  /\ chunkIdx' = AfterEmbedFailure(chunkIdx, Len(ingestChunks))
    /\ UNCHANGED <<ipc, ingestDoc, ingestChunks, blobs, blobOutcome,
                   chunkOutcome, index,
                   uuidSeq, storeArgs, vectorOutcome, ingestResult,
                   ingestCount, nonIngestVars>>

\* after the loop: no chunk was embedded, ingest_document raises
NoEmbeddings ==
    /\ ipc = "embed"
    /\ chunkIdx = Len(ingestChunks)
    /\ chunkEmbeddings = <<>>
    /\ ipc' = "failed"
    /\ ingestResult' = [status |-> "error", step |-> "embeddings"]
    /\ UNCHANGED <<ingestDoc, ingestChunks, chunkIdx, chunkEmbeddings,
                   embedLog, blobs, blobOutcome, chunkOutcome, index,
                   uuidSeq, storeArgs,
                   vectorOutcome, ingestCount, nonIngestVars>>

\* step 4: store_embeddings(chunk_embeddings, metadata), then the return
StoreEmbeddings ==
    /\ ipc = "embed"
    /\ chunkIdx = Len(ingestChunks)
    /\ chunkEmbeddings # <<>>
    /\ storeArgs' = chunkEmbeddings
    /\ uuidSeq' = uuidSeq + 1
    /\ \E ok \in BOOLEAN :
          IF ok
          THEN /\ index' = Upsert(index, PointsOf(chunkEmbeddings,
                                                  ingestDoc.id, uuidSeq'))
               /\ vectorOutcome' = "ok"
               /\ ipc' = "done"
               /\ ingestResult' =
                      [status |-> "success",
                       document_id |-> ingestDoc.id,
                       chunk_count |-> Len(ingestChunks),
                       embedding_count |-> Len(chunkEmbeddings)]
          ELSE /\ index' = index
               /\ vectorOutcome' = "failed"
               /\ ipc' = "failed"
               /\ ingestResult' = [status |-> "error", step |-> "vector"]
    /\ UNCHANGED <<ingestDoc, ingestChunks, chunkIdx, chunkEmbeddings,
                   embedLog, blobs, blobOutcome, chunkOutcome, ingestCount,
                   nonIngestVars>>

\* the caller has the result or the exception; the next upload may start
IngestReturn ==
    /\ ipc \in {"done", "failed"}
    /\ ipc' = "idle"
    /\ ingestDoc' = NoDoc
    /\ ingestChunks' = <<>>
    /\ chunkIdx' = 0
    /\ chunkEmbeddings' = <<>>
    /\ embedLog' = <<>>
    /\ blobOutcome' = "none"
    /\ chunkOutcome' = "none"
    /\ storeArgs' = <<>>
    /\ vectorOutcome' = "none"
    /\ ingestResult' = NoResult
    /\ UNCHANGED <<blobs, index, uuidSeq, ingestCount, nonIngestVars>>

IngestNext ==
    \/ StoreDocument
    \/ CreateChunks
    \/ EmbedChunk
    \/ NoEmbeddings
    \/ StoreEmbeddings
    \/ IngestReturn

SpecIngest == IngestInit /\ [][IngestNext]_vars

(***************************************************************************)
(* Claims about ingestion.                                                 *)
(***************************************************************************)
IngestEnded == ipc \in {"done", "failed"}

\* the positions in the embedding log whose attempt succeeded, in order
EmbeddedPositions ==
    SelectSeq([k \in 1..Len(embedLog) |-> k], LAMBDA k : embedLog[k].ok)

\* the chunks whose embedding succeeded, in split order
EmbeddedChunks ==
    [j \in 1..Len(EmbeddedPositions) |-> ingestChunks[EmbeddedPositions[j]]]

\* C7: ingestion continues past a chunk whose embedding fails.  Every chunk
\* of the split is attempted once, in order, whatever the earlier outcomes;
\* the chunks whose embedding succeeded are what the vector store receives,
\* in split order; the vector store is never called with an empty list; and
\* the ingestion fails exactly when the blob store failed, or no chunk was
\* embedded, or the vector store failed.
C7_IngestContinuesPastChunkFailure ==
    /\ \A k \in 1..Len(embedLog) : embedLog[k].index = k - 1
    /\ Len(embedLog) <= Len(ingestChunks)
    /\ (IngestEnded /\ blobOutcome = "ok")
           => Len(embedLog) = Len(ingestChunks)
    /\ (vectorOutcome # "none")
           => /\ storeArgs # <<>>
              /\ [j \in 1..Len(storeArgs) |-> storeArgs[j].content]
                     = EmbeddedChunks
    /\ (IngestEnded /\ EmbeddedPositions # <<>>) => vectorOutcome # "none"
    /\ IngestEnded
           => (ingestResult.status = "error"
                  <=> \/ blobOutcome = "failed"
                      \/ (blobOutcome = "ok" /\ EmbeddedPositions = <<>>)
                      \/ vectorOutcome = "failed")
    /\ (ipc = "done") => ingestResult.status = "success"

\* an ingestion succeeded although an early chunk's embedding failed, and a
\* later chunk was still embedded and stored
C7_Witness ==
    /\ ipc = "done"
    /\ ingestResult.status = "success"
    /\ \E k, j \in 1..Len(embedLog) :
          k < j /\ ~embedLog[k].ok /\ embedLog[j].ok
    /\ \E p \in index :
          /\ p.id[1] = uuidSeq
          /\ p.payload.content = ingestChunks[Len(ingestChunks)]

ChunkingFaulted == chunkOutcome \in {"raised", "empty"}

\* C23: chunking never fails ingestion.  When the chunker raised or returned
\* no chunks, ingest_document goes on to the embedding step with the single
\* chunk that is the whole trimmed input; that chunk is attempted; and the
\* ingestion fails only if the embedding of that chunk or the vector store
\* failed.
C23_ChunkingFaultFallsBack ==
    ChunkingFaulted
        => /\ ipc \in {"embed", "done", "failed"}
           /\ ingestChunks = <<Strip(ingestDoc.content)>>
           /\ IngestEnded => Len(embedLog) = 1
           /\ (ipc = "failed")
                  => \/ (ingestResult.step = "embeddings" /\ ~embedLog[1].ok)
                     \/ (ingestResult.step = "vector"
                            /\ vectorOutcome = "failed")
           /\ (IngestEnded /\ embedLog[1].ok /\ vectorOutcome = "ok")
                  => ingestResult.status = "success"

\* the chunker raised on a document that is not small, and the ingestion
\* succeeded with the whole trimmed document as its one chunk
C23_Witness ==
    /\ chunkOutcome = "raised"
    /\ ipc = "done"
    /\ ingestResult.status = "success"
    /\ ingestResult.chunk_count = 1
    /\ \E p \in index :
          /\ p.id[1] = uuidSeq
          /\ p.payload.content = Strip(ingestDoc.content)

\* the chunker returned no chunks, and the ingestion went on
C23_WitnessEmpty ==
    /\ chunkOutcome = "empty"
    /\ ipc = "done"
    /\ ingestChunks = <<Strip(ingestDoc.content)>>

\* the attempts the embedding log holds for chunk i
AttemptsOf(i) == SelectSeq(embedLog, LAMBDA e : e.index = i)

\* C24: on the ingestion path a transient failure of the embedding provider
\* is retried up to 3 times.  For each chunk the provider is called at most
\* 3 times; no call follows a success; and once the embedding loop is past a
\* chunk, either its last attempt succeeded or all 3 attempts failed.
C24_EmbeddingRetriedThreeTimes ==
    \A i \in 0..(Len(ingestChunks) - 1) :
        LET attempts == AttemptsOf(i)
        IN  /\ Len(attempts) <= MaxAttempts
            /\ \A k \in 1..(Len(attempts) - 1) : ~attempts[k].ok
            /\ (ipc \in {"embed", "done", "failed"} /\ chunkIdx > i)
                   => \/ attempts[Len(attempts)].ok
                      \/ Len(attempts) = MaxAttempts

\* IngestResponse(**result): the fields of the result the route answers with
IngestResponse(result) ==
    [document_id |-> result.document_id,
     chunk_count |-> result.chunk_count,
     status |-> result.status]

\* the records the ingestion in progress has written to the index
StoredByIngestion == {p \in index : p.id[1] = uuidSeq}

\* C25: a partial ingestion reports success with a reduced chunk count.  The
\* chunk_count of the result answered to the caller is the number of chunks
\* that were embedded and stored, which is below the number of chunks of
\* the split when some embedding failed.
C25_ChunkCountIsEmbeddedCount ==
    (ipc = "done")
        => /\ IngestResponse(ingestResult).status = "success"
           /\ IngestResponse(ingestResult).chunk_count
                  = Len(EmbeddedPositions)
           /\ IngestResponse(ingestResult).chunk_count
                  = Cardinality(StoredByIngestion)

\* the blobs stored for a document
BlobsOfDocument(container, documentId) == {b \in container : b[3] = documentId}

\* C26: a total ingestion failure is atomic.  When ingest_document has
\* failed after its blob was stored, because no chunk was embedded or
\* because the vector store write failed, the blob has been rolled back:
\* neither a blob nor a chunk record of that document remains.
C26_FailedIngestionRolledBack ==
    (ipc = "failed" /\ blobOutcome = "ok")
        => /\ BlobsOfDocument(blobs, ingestDoc.id) = {}
           /\ \A p \in index : p.payload.document_id # ingestDoc.id

\* C29: storing chunks is an upsert keyed by document and chunk index.  When
\* an ingestion of a document has completed, the records of that document
\* in the vector index are exactly the records of this ingestion, also when
\* the document was ingested before: their number is this ingestion's
\* embedded chunk count.
C29_ReingestReplacesRecords ==
    (ipc = "done")
        => /\ {p \in index : p.payload.document_id = ingestDoc.id}
                  = StoredByIngestion
           /\ Cardinality({p \in index :
                              p.payload.document_id = ingestDoc.id})
                  = Len(storeArgs)

(***************************************************************************)
(* The non-streaming query path and the evaluator: RAGSystem.process_query *)
(* and ResponseEvaluation.evaluate_response, which is also an entry point  *)
(* of its own.  A response text is a sequence of one-character strings.    *)
(* Means are kept as exact pairs <<numerator, denominator>>.  Timings and  *)
(* token usage, which no step branches on, are left out of the records.    *)
(***************************************************************************)
MaxClock == 2

MaxResponseLen == 6

ResponseAlphabet == {"[", "]", "1", "2"}

\* the texts evaluate_response can be given
Responses == UNION {[1..n -> ResponseAlphabet] : n \in 0..MaxResponseLen}

\* the texts the completion provider returns to process_query
CompletionTexts ==
    { <<>>, <<"1", "2">>, <<"[", "1", "]">>,
      <<"[", "2", "]", "[", "1", "]">> }

\* datetime.utcnow(): a reading no earlier than the one before
ClockReadings == clock..MaxClock

\* f"query_{start_time.timestamp()}"
QueryId(t) == <<"query_", t>>

RECURSIVE Decimal(_)
\* str(n) for a positive n
Decimal(n) ==
    IF n < 10 THEN <<Digit(n)>>
    ELSE Decimal(n \div 10) \o <<Digit(n % 10)>>

\* the digits alone, without the brackets
CitationMarkBare(i) == Decimal(i + 1)

\* f"[{i+1}]"
CitationMark(i) == <<"[">> \o Decimal(i + 1) \o <<"]">>

\* sub in s
Contains(s, sub) ==
    \E k \in 1..(Len(s) - Len(sub) + 1) :
        SubSeq(s, k, k + Len(sub) - 1) = sub

\* sum(1 for i in range(len(sources)) if f"[{i+1}]" in response)
CitationCount(response, sources) ==
    Cardinality({i \in 0..(Len(sources) - 1) :
                    Contains(response, CitationMark(i))})

\* any(f"[{i+1}]" in response for i in range(len(sources)))
CitationPresent(response, sources) ==
    \E i \in 0..(Len(sources) - 1) : Contains(response, CitationMark(i))

\* sum(similarity) / len(sources) if sources else 0
EvalConfidence(sources) ==
    IF sources # <<>> THEN <<SumSeq(sources), Len(sources)>> ELSE <<0, 1>>

\* the best similarity instead of the mean
QueryConfidenceBest(docs) == <<docs[1], 1>>

\* sum(doc["similarity"] for doc in relevant_docs) / len(relevant_docs)
QueryConfidence(docs) == <<SumSeq(docs), Len(docs)>>

\* the metrics evaluate_response builds
Metrics(t, response, sources) ==
    [query_id |-> QueryId(t),
     response_length |-> Len(response),
     source_count |-> Len(sources),
     citations |-> [count |-> CitationCount(response, sources),
                    present |-> CitationPresent(response, sources)],
     source_relevance |-> [mean |-> EvalConfidence(sources)],
     confidence_score |-> EvalConfidence(sources)]

\* f"evaluations/{metrics['query_id']}/{timestamp}.json"
EvaluationBlob(queryId, t) == <<"evaluations/", queryId, "/", t, ".json">>

\* upload_blob(..., overwrite=True): the blob of that name holds the data
StoreJson(container, name, data) ==
    {b \in container : b.name # name} \cup {[name |-> name, data |-> data]}

\* clock readings per second: the clock is read to the microsecond, blob
\* timestamps are formatted to the second
TicksPerSecond == 2

\* strftime('%Y/%m/%d/%H%M%S')
SecondOf(t) == t \div TicksPerSecond

QueryInit ==
    /\ qMode = "query"
    /\ qpc = "start"
    /\ qId = "none"
    /\ qDocs = <<>>
    /\ qResponse = <<>>
    /\ qCalls = 0
    /\ qEval = NoMetrics
    /\ qResult = NoResult
    /\ clock = 0
    /\ queryIds = <<>>
    /\ evalLogs = {}
    /\ ChunkIdle
    /\ StreamIdle
    /\ EmbedIdle
    /\ IngestIdle
    /\ RequestIdle
    /\ GenIdle

\* evaluate_response called on its own with a response and its sources, at
\* the last clock reading covered: what it computes does not depend on the time
EvalInit ==
    /\ qMode = "evaluate"
    /\ qpc = "evaluate"
    /\ qId = "none"
    /\ qDocs \in DocLists
    /\ qResponse \in Responses
    /\ qCalls = 0
    /\ qEval = NoMetrics
    /\ qResult = NoResult
    /\ clock = MaxClock
    /\ queryIds = <<>>
    /\ evalLogs = {}
    /\ ChunkIdle
    /\ StreamIdle
    /\ EmbedIdle
    /\ IngestIdle
    /\ RequestIdle
    /\ GenIdle

\* an exception raised inside the try of process_query: logged and re-raised
QueryRaise(step) ==
    /\ qpc' = "failed"
    /\ qResult' = [status |-> "error", step |-> step]

\* start_time = datetime.utcnow(); query_id = f"query_{...}"
StartQuery ==
    /\ qMode = "query"
    /\ qpc = "start"
    /\ \E t \in ClockReadings :
          /\ clock' = t
          /\ qId' = QueryId(t)
          /\ queryIds' = Append(queryIds, [entry |-> "process_query",
                                           query_id |-> QueryId(t)])
    /\ qpc' = "embed"
    /\ UNCHANGED <<qMode, qDocs, qResponse, qCalls, qEval, qResult, evalLogs,
                   nonQueryVars>>

\* query_embedding = await self.azure_client.generate_embedding(query)
QueryEmbed ==
    /\ qMode = "query"
    /\ qpc = "embed"
    /\ \/ qpc' = "search" /\ UNCHANGED qResult
       \/ QueryRaise("embedding")
    /\ UNCHANGED <<qMode, qId, qDocs, qResponse, qCalls, qEval, clock,
                   queryIds, evalLogs, nonQueryVars>>

\* relevant_docs = await self.vector_store.search_similar(...)
QuerySearch ==
    /\ qMode = "query"
    /\ qpc = "search"
    /\ \/ \E docs \in DocLists :
              /\ qDocs' = docs
              /\ qpc' = "branch"
              /\ UNCHANGED qResult
       \/ QueryRaise("search") /\ UNCHANGED qDocs
    /\ UNCHANGED <<qMode, qId, qResponse, qCalls, qEval, clock, queryIds,
                   evalLogs, nonQueryVars>>

\* if not relevant_docs: raise Exception("No relevant information found")
QueryNoRelevantDocs ==
    /\ qMode = "query"
    /\ qpc = "branch"
    /\ qDocs = <<>>
    /\ QueryRaise("no relevant information")
    /\ UNCHANGED <<qMode, qId, qDocs, qResponse, qCalls, qEval, clock,
                   queryIds, evalLogs, nonQueryVars>>

\* completion = await self.azure_client.generate_completion(...)
QueryComplete ==
    /\ qMode = "query"
    /\ qpc = "branch"
    /\ qDocs # <<>>
    /\ qCalls' = qCalls + 1
    /\ \/ \E text \in CompletionTexts :
              /\ qResponse' = text
              /\ qpc' = "evaluate"
              /\ UNCHANGED qResult
       \/ QueryRaise("completion") /\ UNCHANGED qResponse
    /\ UNCHANGED <<qMode, qId, qDocs, qEval, clock, queryIds, evalLogs,
                   nonQueryVars>>

\* the error record of evaluate_response's outer except
EvaluationError == [query_id |-> "none", error |-> "store"]

\* a failed store reaching the outer except
EvaluationReturnedIfStored(metrics, stored) ==
    IF stored THEN metrics ELSE EvaluationError

\* try: await self._store_metrics(metrics) / except: logger.warning(...)
\* return metrics
EvaluationReturned(metrics, stored) == metrics

\* evaluate_response: build the metrics at reading t1, store them under a
\* timestamp read at t2; store_json answers None when the upload fails, and
\* nothing looks at its answer
Evaluated(t1, t2, stored) ==
    /\ qEval' = EvaluationReturned(Metrics(t1, qResponse, qDocs), stored)
    /\ clock' = t2
    /\ evalLogs' =
           IF stored
           THEN StoreJson(evalLogs,
                          EvaluationBlob(QueryId(t1), SecondOf(t2)),
                          Metrics(t1, qResponse, qDocs))
           ELSE evalLogs

\* evaluation = await self.evaluator.evaluate_response(...), the confidence
\* and the return
QueryEvaluateAndReturn ==
    /\ qMode = "query"
    /\ qpc = "evaluate"
    /\ \E t1 \in ClockReadings :
          \E t2 \in t1..MaxClock, stored \in BOOLEAN :
              Evaluated(t1, t2, stored)
    /\ qResult' = [status |-> "ok",
                   query_id |-> qId,
                   response |-> qResponse,
                   sources |-> qDocs,
                   evaluation |-> qEval',
                   confidence |-> QueryConfidence(qDocs)]
    /\ qpc' = "done"
    /\ UNCHANGED <<qMode, qId, qDocs, qResponse, qCalls, queryIds,
                   nonQueryVars>>

\* evaluate_response called on its own
EvaluateDirect ==
    /\ qMode = "evaluate"
    /\ qpc = "evaluate"
    /\ \E t1 \in ClockReadings :
          \E t2 \in t1..MaxClock, stored \in BOOLEAN :
              Evaluated(t1, t2, stored)
    /\ qpc' = "evaluated"
    /\ UNCHANGED <<qMode, qId, qDocs, qResponse, qCalls, qResult, queryIds,
                   nonQueryVars>>

QueryNext ==
    \/ StartQuery
    \/ QueryEmbed
    \/ QuerySearch
    \/ QueryNoRelevantDocs
    \/ QueryComplete
    \/ QueryEvaluateAndReturn

SpecQuery == QueryInit /\ [][QueryNext]_vars

SpecEvaluate == EvalInit /\ [][EvaluateDirect]_vars

\* any of the three entry points that report a confidence is invoked
SpecAnswer ==
    /\ (StreamInit \/ QueryInit \/ EvalInit)
    /\ [][StreamNext \/ QueryNext \/ EvaluateDirect]_vars

(***************************************************************************)
(* Claims about the query path and the evaluator.                          *)
(***************************************************************************)
\* the exact pair conf is the arithmetic mean of xs, and 0 when xs is empty
IsMeanOf(conf, xs) ==
    /\ conf[2] > 0
    /\ IF xs = <<>>
       THEN conf[1] = 0
       ELSE conf[1] * Len(xs) = conf[2] * SumSeq(xs)

\* C12: a reported confidence is the arithmetic mean of the retrieved
\* sources' similarity scores: the evaluator's confidence_score, the
\* confidence of a process_query result and the confidence of a streamed
\* metadata event alike.  With zero sources the confidence is 0 and no
\* call to the completion provider is made.
C12_ConfidenceIsMeanSimilarity ==
    /\ (qEval # NoMetrics) => IsMeanOf(qEval.confidence_score, qDocs)
    /\ (qResult.status = "ok")
           => IsMeanOf(qResult.confidence, qResult.sources)
    /\ \A k \in 1..Len(frames) :
           (frames[k].type = "metadata")
               => IsMeanOf(frames[k].body.data.confidence, relevantDocs)
    /\ (qMode = "query" /\ qpc \in {"branch", "failed", "done"}
          /\ qDocs = <<>>) => qCalls = 0
    /\ (retrieval = "empty") => completionCalls = 0

\* process_query returned a confidence over two sources of different scores
C12_Witness ==
    /\ qResult.status = "ok"
    /\ Len(qResult.sources) = 2
    /\ qResult.sources[1] # qResult.sources[2]
    /\ qEval.confidence_score = qResult.confidence

\* the evaluator reported confidence 0 for zero sources
C12_WitnessNoSources ==
    /\ qMode = "evaluate"
    /\ qEval # NoMetrics
    /\ qDocs = <<>>
    /\ qEval.confidence_score[1] = 0

\* a metadata frame was streamed
C12_WitnessStream ==
    \E k \in 1..Len(frames) :
        frames[k].type = "metadata" /\ Len(relevantDocs) = 2

\* the retrieval came back empty and the query failed without generating
C12_WitnessNoGeneration ==
    /\ qMode = "query"
    /\ qpc = "failed"
    /\ qResult.step = "no relevant information"
    /\ qCalls = 0

\* C13: every result process_query returns has a non-empty source list,
\* every source similarity at or above the score threshold, and so a
\* confidence between the threshold and 1.
C13_ResultConfidenceInRange ==
    (qResult.status = "ok")
        => /\ qResult.sources # <<>>
           /\ \A k \in 1..Len(qResult.sources) :
                  qResult.sources[k] >= SimilarityThreshold
           /\ qResult.confidence[2] > 0
           /\ qResult.confidence[1]
                  >= SimilarityThreshold * qResult.confidence[2]
           /\ qResult.confidence[1] <= 100 * qResult.confidence[2]

\* a result was returned whose weakest source sits exactly on the threshold
C13_Witness ==
    /\ qResult.status = "ok"
    /\ Len(qResult.sources) = 2
    /\ qResult.sources[1] > SimilarityThreshold
    /\ qResult.sources[2] = SimilarityThreshold

\* the three characters "[", the digit of i, "]" stand somewhere in response
CitesIndex(response, i) ==
    \E k \in 1..(Len(response) - 2) :
        /\ response[k] = "["
        /\ response[k + 1] = Digit(i)
        /\ response[k + 2] = "]"

\* C14: for a response and n sources, citations.count is the number of
\* indices i in 1..n whose literal "[i]" occurs in the response, and
\* citations.present holds exactly when that count is above 0; an index
\* above n is never counted.
C14_CitationCoverage ==
    (qEval # NoMetrics)
        => /\ qEval.citations.count =
                  Cardinality({i \in 1..Len(qDocs) : CitesIndex(qResponse, i)})
           /\ qEval.citations.present <=> (qEval.citations.count > 0)

\* one source, a response citing [1] and [2]: the second is not counted
C14_Witness ==
    /\ qMode = "evaluate"
    /\ qEval # NoMetrics
    /\ Len(qDocs) = 1
    /\ CitesIndex(qResponse, 1)
    /\ CitesIndex(qResponse, 2)
    /\ qEval.citations.count = 1
    /\ qEval.citations.present

\* two sources, a response citing [2] but not [1]
C14_WitnessPartial ==
    /\ qMode = "evaluate"
    /\ qEval # NoMetrics
    /\ Len(qDocs) = 2
    /\ ~CitesIndex(qResponse, 1)
    /\ CitesIndex(qResponse, 2)
    /\ qEval.citations.count = 1

\* no evaluation record was persisted: the store of the evaluation failed
EvaluationNotPersisted ==
    \A b \in evalLogs : b.name[1] # "evaluations/"

\* the record holds every metric of the response and its sources
IsFullMetrics(m, response, sources) ==
    \E t \in 0..MaxClock : m = Metrics(t, response, sources)

\* C21: persisting the evaluation record is best-effort.  When the store of
\* the record failed, evaluate_response has still returned the full metrics
\* record, and process_query has still returned its result, carrying that
\* record: the storage failure does not reach the caller.
C21_StoreFailureNotPropagated ==
    /\ (qMode = "evaluate" /\ qpc = "evaluated" /\ EvaluationNotPersisted)
           => IsFullMetrics(qEval, qResponse, qDocs)
    /\ (qMode = "query" /\ qpc = "done" /\ EvaluationNotPersisted)
           => /\ qResult.status = "ok"
              /\ qResult.query_id = qId
              /\ qResult.response = qResponse
              /\ qResult.evaluation = qEval
              /\ IsFullMetrics(qEval, qResponse, qDocs)

\* a query answered with its full evaluation although nothing was persisted
C21_Witness ==
    /\ qMode = "query"
    /\ qpc = "done"
    /\ EvaluationNotPersisted
    /\ qResult.status = "ok"
    /\ IsFullMetrics(qResult.evaluation, qResponse, qDocs)

\* evaluate_response alone, its store failed
C21_WitnessEvaluate ==
    /\ qMode = "evaluate"
    /\ qpc = "evaluated"
    /\ EvaluationNotPersisted
    /\ IsFullMetrics(qEval, qResponse, qDocs)

\* C28: the evaluation record of a query is tied to that query's query_id.
\* For every successful process_query, the query_id inside the evaluation
\* record it returns, and inside the record it persisted, is the query_id of
\* the returned result.
C28_EvaluationTiedToQueryId ==
    (qMode = "query" /\ qpc = "done")
        => /\ qResult.evaluation.query_id = qResult.query_id
           /\ \A b \in evalLogs :
                  (b.name[1] = "evaluations/")
                      => /\ b.data.query_id = qResult.query_id
                         /\ b.name[2] = qResult.query_id

(***************************************************************************)
(* Requests on the stored documents: DELETE /documents/{id} with           *)
(* RAGSystem.delete_document, and the listing of VectorStore.  The blob    *)
(* and vector clients are the synchronous ones, so delete_document runs to *)
(* its end without yielding: a request is one step.  Requests are taken    *)
(* one at a time, between ingestions.                                      *)
(***************************************************************************)
MaxDeletes == 2

Roles == {"admin", "analyst", "user"}

\* ROLE_PERMISSIONS
RolePermissions(role) ==
    CASE role = "admin" ->
             {"read:documents", "write:documents", "delete:documents",
              "query:system"}
      [] role = "analyst" ->
             {"read:documents", "write:documents", "query:system"}
      [] OTHER -> {"read:documents", "query:system"}

\* SecurityHandler.__call__: 403 when a required permission is missing
Authorized(role, required) == required \subseteq RolePermissions(role)

\* the permissions the DELETE route asks for: it declares no auth dependency
DeleteRouteRequired == {}

\* f"{timestamp}_{document_id}": the name of a stored blob without ".txt"
StemId(stamp, documentId) == ToString(stamp) \o "_" \o documentId

\* the ids a delete request can carry: the document ids, and the ids under
\* which f"{document_id}.txt" is the name of a stored blob
DeleteIds == DocIds \cup {StemId(b[1], b[3]) : b \in blobs}

\* f"{document_id}.txt", the blob delete_document addresses
DeleteBlobName(documentId) ==
    IF \E stamp \in Stamps, d \in DocIds : documentId = StemId(stamp, d)
    THEN LET sd == CHOOSE sd \in Stamps \X DocIds :
                       documentId = StemId(sd[1], sd[2])
         IN  BlobName(sd[1], sd[2])
    ELSE <<documentId, ".txt">>

\* how the blob step can go: the blob is there and delete_blob() removes it,
\* the blob is not there, or the service cannot be reached
BlobDeleteOutcomes(documentId) ==
    IF DeleteBlobName(documentId) \in blobs
    THEN {"deleted", "outage"}
    ELSE {"missing", "outage"}

\* what `await blob_client.delete_blob()` raises: delete_blob() of the
\* synchronous client returns None, and awaiting None is a TypeError
BlobDeleteError(outcome) ==
    CASE outcome = "deleted" -> "TypeError"
      [] outcome = "missing" -> "ResourceNotFoundError"
      [] OTHER -> "ServiceRequestError"

\* how the vector step can go: the filter cannot be built (Match is a union
\* type in some client versions), the client deletes the points, or the
\* index cannot be reached
VectorDeleteOutcomes == {"filter", "deleted", "outage"}

\* what vector_store.delete_document raises: client.delete() of the
\* synchronous client returns a result object that cannot be awaited
VectorDeleteError(outcome) ==
    CASE outcome = "deleted" -> "TypeError"
      [] outcome = "filter" -> "TypeError"
      [] OTHER -> "ResponseHandlingException"

\* the points matching metadata.document_id == documentId
PointsOfDocument(collection, documentId) ==
    {p \in collection : p.payload.metadata.document_id = documentId}

\* status: a step's flag is set when its try block ran through
DeleteStatus(blobError, vectorError) ==
    [blob_storage |-> (blobError = "none"),
     vector_store |-> (vectorError = "none")]

\* errors: one message per step that raised
DeleteErrors(blobError, vectorError) ==
    (IF blobError = "none" THEN <<>>
     ELSE << <<"Blob storage deletion failed", blobError>> >>)
    \o (IF vectorError = "none" THEN <<>>
        ELSE << <<"Vector store deletion failed", vectorError>> >>)

\* the route: 200 with the result, 404 when the exception text contains
\* "Document not found", 500 for any other exception
DeleteHttpStatus(status, errors) ==
    IF status.blob_storage /\ status.vector_store THEN 200
    ELSE IF \E k \in 1..Len(errors) :
                \E j \in 1..Len(errors[k]) : errors[k][j] = "Document not found"
    THEN 404
    ELSE 500

\* the attributes RAGSystem.__init__ sets
RAGSystemAttributes == {"settings", "azure_client", "vector_store", "evaluator"}

\* how step 3 goes: self.embeddings_service.clear_document_cache(...) on an
\* object without that attribute raises AttributeError, which is logged
PurgeOutcome ==
    IF "embeddings_service" \in RAGSystemAttributes
    THEN "purged"
    ELSE "AttributeError"

\* the key matches the pattern f"emb:doc:{document_id}:*"
MatchesDocumentPattern(key, documentId) ==
    /\ Len(key) >= 4
    /\ SubSeq(key, 1, 4) = <<"emb:", "doc:", documentId, ":">>

\* clear_document_cache: the keys matching the pattern are deleted
ClearDocumentCache(c, documentId) ==
    [k \in DOMAIN c |->
        IF MatchesDocumentPattern(k, documentId) THEN NoEntry ELSE c[k]]

\* the cache after step 3 of delete_document
CacheAfterDelete(c, documentId) ==
    IF PurgeOutcome = "purged" THEN ClearDocumentCache(c, documentId) ELSE c

\* DELETE /documents/{document_id}: the route and delete_document, whole
DeleteDocument ==
    /\ ipc = "idle"
    /\ lastDelete = NoRequest
    /\ deleteCount < MaxDeletes
    /\ deleteCount' = deleteCount + 1
    /\ \E documentId \in DeleteIds, role \in Roles :
          IF ~Authorized(role, DeleteRouteRequired)
          THEN /\ lastDelete' = [kind |-> "delete", id |-> documentId,
                                 role |-> role, http |-> 403,
                                 steps |-> <<"none", "none">>,
                                 purge |-> "none", errors |-> <<>>,
                                 blobsBefore |-> blobs, indexBefore |-> index]
               /\ UNCHANGED <<blobs, index, cache>>
          ELSE \E blobStep \in BlobDeleteOutcomes(documentId),
                  vectorStep \in VectorDeleteOutcomes :
                  LET blobError == BlobDeleteError(blobStep)
                      vectorError == VectorDeleteError(vectorStep)
                      status == DeleteStatus(blobError, vectorError)
                      errors == DeleteErrors(blobError, vectorError)
                  IN  /\ blobs' = IF blobStep = "deleted"
                                  THEN blobs \ {DeleteBlobName(documentId)}
                                  ELSE blobs
                      /\ index' = IF vectorStep = "deleted"
                                  THEN index \ PointsOfDocument(index,
                                                                documentId)
                                  ELSE index
                      /\ cache' = CacheAfterDelete(cache, documentId)
                      /\ lastDelete' =
                             [kind |-> "delete", id |-> documentId,
                              role |-> role,
                              http |-> DeleteHttpStatus(status, errors),
                              steps |-> <<blobStep, vectorStep>>,
                              purge |-> PurgeOutcome, errors |-> errors,
                              blobsBefore |-> blobs, indexBefore |-> index]
    /\ UNCHANGED <<ipc, ingestDoc, ingestChunks, chunkIdx, chunkEmbeddings,
                   embedLog, blobOutcome, chunkOutcome, uuidSeq, storeArgs,
                   vectorOutcome, ingestResult, ingestCount, lastList,
                   lastFeedback, now, embedOp, lastEmbed, lastStore,
                   chunkVars, streamVars, queryVars, genVars>>

\* the caller has the response; the next request may be made
DeleteReturn ==
    /\ lastDelete # NoRequest
    /\ lastDelete' = NoRequest
    /\ UNCHANGED <<deleteCount, lastList, lastFeedback, ingestVars,
                   nonStoreVars>>

\* an ingestion step, while no response to a request is outstanding
IngestStep == lastDelete = NoRequest /\ lastList = NoRequest /\ IngestNext

DeleteNext ==
    \/ IngestStep
    \/ DeleteDocument
    \/ DeleteReturn

SpecDelete == IngestInit /\ [][DeleteNext]_vars

MaxLimit == 2

\* the values of the limit parameter covered
Limits == 1..MaxLimit

\* client.scroll(limit=limit, offset=0): the first `limit` points in the
\* order of their ids, which are hashes: any `limit` points of the
\* collection, or all of them when there are fewer
ScrollPages(collection, limit) ==
    {page \in SUBSET collection :
        Cardinality(page) =
            IF Cardinality(collection) < limit
            THEN Cardinality(collection) ELSE limit}

\* the grouping of a page by document_id: one entry per document, counting
\* the points of the page
GroupByDocument(page) ==
    {[document_id |-> documentId,
      chunk_count |->
          Cardinality({p \in page : p.payload.document_id = documentId})]
     : documentId \in {p.payload.document_id : p \in page}}

\* GET /documents from the start of the collection: list_documents, whole
ListDocuments ==
    /\ ipc = "idle"
    /\ lastList = NoRequest
    /\ lastDelete = NoRequest
    /\ \E limit \in Limits :
          \E page \in ScrollPages(index, limit) :
              lastList' = [kind |-> "list", limit |-> limit, offset |-> 0,
                           documents |-> GroupByDocument(page),
                           total |-> Cardinality(GroupByDocument(page))]
    /\ UNCHANGED <<lastDelete, deleteCount, lastFeedback, ingestVars,
                   nonStoreVars>>

\* the caller has the listing; the next request may be made
ListReturn ==
    /\ lastList # NoRequest
    /\ lastList' = NoRequest
    /\ UNCHANGED <<lastDelete, deleteCount, lastFeedback, ingestVars,
                   nonStoreVars>>

ListNext ==
    \/ IngestStep
    \/ ListDocuments
    \/ ListReturn

SpecList == IngestInit /\ [][ListNext]_vars

(***************************************************************************)
(* Claims about deletion.                                                  *)
(***************************************************************************)
\* neither a blob nor a chunk record of the document is stored
DocumentAbsent(container, collection, documentId) ==
    /\ \A b \in container : b[3] # documentId
    /\ \A p \in collection : p.payload.document_id # documentId

\* no backend was out of reach during the request
NoOutage(request) == \A k \in 1..2 : request.steps[k] # "outage"

\* C15: deleting a document_id that is absent (never ingested or already
\* deleted) succeeds as a no-op or is answered "not found" (404); without a
\* backend outage it is never answered with the generic failure (500).
C15_DeleteAbsentIsNotAFailure ==
    (/\ lastDelete.kind = "delete"
     /\ NoOutage(lastDelete)
     /\ DocumentAbsent(lastDelete.blobsBefore, lastDelete.indexBefore,
                       lastDelete.id))
        => lastDelete.http \in {200, 404}

\* C18: a DELETE /documents/{id} request by a role without the
\* delete:documents permission is answered 403 and deletes nothing from the
\* blob store or the vector index; the same request by an admin, with the
\* backends in reach, is answered 200.
C18_DeleteIsAdminOnly ==
    (lastDelete.kind = "delete")
        => IF "delete:documents" \in RolePermissions(lastDelete.role)
           THEN NoOutage(lastDelete) => lastDelete.http = 200
           ELSE /\ lastDelete.http = 403
                /\ blobs = lastDelete.blobsBefore
                /\ index = lastDelete.indexBefore

\* the step carried its deletion out
StepSucceeded(request, k) == request.steps[k] = "deleted"

\* the raised error names the step
ErrorNames(request, message) ==
    \E j \in 1..Len(request.errors) : request.errors[j][1] = message

\* C30: delete_document attempts the blob deletion, the vector-store
\* deletion and the cache purge, each one also when an earlier one failed.
\* It returns success exactly when the blob deletion and the vector-store
\* deletion both succeeded, whatever the cache purge did, and otherwise
\* raises an error that names every step that failed.
C30_DeleteStepsAndOutcome ==
    (lastDelete.kind = "delete" /\ lastDelete.http # 403)
        => /\ \A k \in 1..2 : lastDelete.steps[k] # "none"
           /\ lastDelete.purge # "none"
           /\ (lastDelete.http = 200)
                  <=> (StepSucceeded(lastDelete, 1)
                          /\ StepSucceeded(lastDelete, 2))
           /\ (lastDelete.http # 200)
                  => /\ ~StepSucceeded(lastDelete, 1)
                            => ErrorNames(lastDelete,
                                          "Blob storage deletion failed")
                     /\ ~StepSucceeded(lastDelete, 2)
                            => ErrorNames(lastDelete,
                                          "Vector store deletion failed")

\* C17: a listing holds at most one entry per document_id, and each entry's
\* chunk_count is the number of chunk records stored for that document,
\* whatever the limit.  (Listings from the start of the collection.)
C17_ListOneEntryPerDocument ==
    (lastList.kind = "list")
        => /\ \A e1, e2 \in lastList.documents :
                  (e1.document_id = e2.document_id) => e1 = e2
           /\ \A e \in lastList.documents :
                  e.chunk_count =
                      Cardinality({p \in index :
                                      p.payload.document_id = e.document_id})

(***************************************************************************)
(* The embedding cache and the stored documents together: the chunk texts  *)
(* of the documents are embedded through EmbeddingsService with caching,   *)
(* between the ingestions and the delete requests.                         *)
(***************************************************************************)
\* the members of a list
Range(xs) == {xs[k] : k \in 1..Len(xs)}

\* the chunk texts the documents of the model can be split into
ChunkTexts ==
    UNION {Range(ChunksWithFallback(ChunkTextResult(content, fault), content))
              : content \in DocContents, fault \in BOOLEAN}

\* an empty cache, and no request in progress anywhere
PurgeInit ==
    /\ cache = [k \in {CacheKey(t) : t \in ChunkTexts} |-> NoEntry]
    /\ now = 0
    /\ embedOp = NoOp
    /\ lastEmbed = NoOp
    /\ lastStore = [t \in ChunkTexts |-> -1]
    /\ ChunkIdle
    /\ StreamIdle
    /\ IngestIdle
    /\ QueryIdle
    /\ RequestIdle
    /\ GenIdle

\* no generate_embeddings call is in progress or unanswered
EmbedQuiet == embedOp = NoOp /\ lastEmbed = NoOp

\* generate_embeddings(text) with caching, on the chunk text of a stored
\* record, between requests
EmbedChunkText ==
    /\ ipc = "idle"
    /\ lastDelete = NoRequest
    /\ EmbedQuiet
    /\ \E t \in {p.payload.content : p \in index} :
           SingleAttempt([kind |-> "single", texts |-> <<t>>,
                          useCache |-> TRUE, attempt |-> 1, calls |-> 0])
    /\ UNCHANGED <<now, nonEmbedVars>>

\* an ingestion step, while no embed call is outstanding
QuietIngestStep == EmbedQuiet /\ IngestStep

\* a delete request, while no embed call is outstanding
QuietDeleteDocument == EmbedQuiet /\ DeleteDocument

PurgeNext ==
    \/ QuietIngestStep
    \/ EmbedChunkText
    \/ RetryEmbedSingle
    \/ TakeResult
    \/ QuietDeleteDocument
    \/ DeleteReturn

SpecPurge == PurgeInit /\ [][PurgeNext]_vars

\* the chunk texts of the records a document had when the request came
DeletedChunkTexts ==
    {p.payload.content :
        p \in PointsOfDocument(lastDelete.indexBefore, lastDelete.id)}

\* C27: deleting a document purges the cache entries keyed to its chunk
\* texts.  When delete_document has run for a document, the cache holds no
\* live entry for any chunk text of that document, so that the next embed
\* of such a text goes to the provider.
C27_DeletePurgesChunkCache ==
    (lastDelete.kind = "delete" /\ lastDelete.http # 403)
        => \A t \in DeletedChunkTexts : CachedEmbedding(t, TRUE) = NoVector

(***************************************************************************)
(* Feedback: FeedbackCollector.record_feedback on the evaluation-logs      *)
(* container, next to the evaluation records process_query leaves there.   *)
(***************************************************************************)
\* UserFeedback.rating is 1-5; the two ends
Ratings == {1, 5}

\* f"feedback/{feedback.query_id}.json"
FeedbackBlob(queryId) == <<"feedback/", queryId, ".json">>

\* feedback.dict() with the timestamp added
FeedbackData(queryId, rating, t) ==
    [query_id |-> queryId, rating |-> rating, timestamp |-> t]

\* POST /evaluation/feedback for the query_id of a returned result:
\* record_feedback, whole.  With a feedback_text it calls
\* azure_client.analyze_sentiment, which AzureClient does not define, and
\* raises; store_json reports a failed upload by returning None, which
\* record_feedback does not look at.
RecordFeedback ==
    /\ qMode = "query"
    /\ qpc = "done"
    /\ lastFeedback = NoRequest
    /\ \E rating \in Ratings, hasText \in BOOLEAN, t \in ClockReadings,
          stored \in BOOLEAN :
          /\ clock' = t
          /\ IF hasText
             THEN /\ lastFeedback' = [kind |-> "feedback", status |-> "error",
                                      query_id |-> qId, rating |-> rating]
                  /\ evalLogs' = evalLogs
             ELSE /\ lastFeedback' = [kind |-> "feedback", status |-> "ok",
                                      query_id |-> qId, rating |-> rating]
                  /\ evalLogs' =
                         IF stored
                         THEN StoreJson(evalLogs, FeedbackBlob(qId),
                                        FeedbackData(qId, rating, t))
                         ELSE evalLogs
    /\ UNCHANGED <<qMode, qpc, qId, qDocs, qResponse, qCalls, qEval, qResult,
                   queryIds, lastDelete, deleteCount, lastList, chunkVars,
                   streamVars, embedVars, ingestVars, genVars>>

\* the caller has the response; the next feedback may be submitted
FeedbackReturn ==
    /\ lastFeedback # NoRequest
    /\ lastFeedback' = NoRequest
    /\ UNCHANGED <<lastDelete, deleteCount, lastList, queryVars,
                   chunkVars, streamVars, embedVars, ingestVars, genVars>>

FeedbackNext ==
    \/ QueryNext
    \/ RecordFeedback
    \/ FeedbackReturn

SpecFeedback == QueryInit /\ [][FeedbackNext]_vars

\* C19: feedback is append-only.  Recording feedback leaves every stored
\* evaluation record unchanged, and a later feedback for the same query_id
\* adds to the feedback recorded earlier: from one state to the next, every
\* blob of the evaluation-logs container stays as it is.
C19_FeedbackAppendOnly == [][\A b \in evalLogs : b \in evalLogs']_vars

(***************************************************************************)
(* The assignment of query ids.  Invocations of process_query and of       *)
(* process_query_stream run concurrently on the event loop; each begins by *)
(* reading the clock and deriving its query_id from the reading, which is  *)
(* all of an invocation that bears on its id.                              *)
(***************************************************************************)
MaxInvocations == 4

EntryPoints == {"process_query", "process_query_stream"}

InvocationsInit ==
    /\ ChunkIdle
    /\ StreamIdle
    /\ EmbedIdle
    /\ IngestIdle
    /\ QueryIdle
    /\ RequestIdle
    /\ GenIdle

\* start_time = datetime.utcnow(); query_id = f"query_{start_time.timestamp()}"
\* the clock may not have advanced since the invocation before
StartInvocation ==
    /\ Len(queryIds) < MaxInvocations
    /\ \E entry \in EntryPoints, t \in ClockReadings :
          /\ clock' = t
          /\ queryIds' = Append(queryIds, [entry |-> entry,
                                           query_id |-> QueryId(t)])
    /\ UNCHANGED <<qMode, qpc, qId, qDocs, qResponse, qCalls, qEval, qResult,
                   evalLogs, nonQueryVars>>

SpecInvocations == InvocationsInit /\ [][StartInvocation]_vars

\* C20: any two distinct invocations of process_query or
\* process_query_stream are assigned different query_id values, also when
\* they start at the same clock reading.
C20_QueryIdUniquePerInvocation ==
    \A i, j \in 1..Len(queryIds) :
        (i # j) => queryIds[i].query_id # queryIds[j].query_id

=============================================================================
